---------------------------- MODULE Spec2Model ----------------------------
(***************************************************************************)
(* Model of the rollup core of citrea:                                     *)
(*   - the UTXO selector (bitcoin-da/src/helpers/builders.rs),             *)
(*   - the fork manager (primitives/src/fork/manager.rs),                  *)
(*   - the soft-confirmation STF (sov-modules-stf-blueprint/src/lib.rs).   *)
(* Four specifications share the module: SpecSelect (the selector),        *)
(* SpecFork (the fork manager driven by a host), Spec (one call of the     *)
(* commitment-range replay) and SpecChain (a range replayed in one call    *)
(* and then again in two).                                                 *)
(***************************************************************************)
EXTENDS Integers, Sequences, FiniteSets, TLC

(***************************************************************************)
(* Bounds of the model.                                                    *)
(***************************************************************************)
\* longest UTXO pool handed to the selector
MaxPool == 3
\* largest amount of one UTXO
MaxAmount == 3
\* largest target amount asked of the selector
MaxTarget == 7
\* highest L2 height the fork-manager host registers
MaxHeight == 4
\* most migration handlers registered on one fork manager
MaxHandlers == 2
\* most transactions in one soft confirmation
MaxTxs == 2
\* most soft confirmations in one replayed range
MaxBlocks == 3
\* most pool UTXOs in the calls the termination check of the builder runs on
MaxLivePool == 1
\* longest list of specs handed to ForkManager::new
MaxSpecs == 2
\* highest nonce the search of create_inscription_transactions tries
MaxNonce == 18
\* activations a host's fork manager is followed through
MaxActivations == 3
\* largest transaction size in vB whose fee is computed
MaxVsize == 800

(***************************************************************************)
(* Helpers on sequences.                                                   *)
(***************************************************************************)
RECURSIVE SumSeq(_)
SumSeq(s) == IF s = <<>> THEN 0 ELSE s[1] + SumSeq(Tail(s))

Amounts(us) == [i \in 1..Len(us) |-> us[i].amount]

RECURSIVE FilterSeq(_, _)
\* the subsequence of s at the positions in keep, order kept
FilterSeq(s, keep) ==
    IF s = <<>> THEN <<>>
    ELSE LET rest == FilterSeq(SubSeq(s, 1, Len(s) - 1), keep)
         IN  IF Len(s) \in keep THEN Append(rest, s[Len(s)]) ELSE rest

\* p = <<key, item>> put into the sorted s after every entry whose key is <= its own
InsertByKey(p, s) ==
    LET pos == Cardinality({i \in 1..Len(s) : s[i][1] <= p[1]})
    IN  SubSeq(s, 1, pos) \o <<p>> \o SubSeq(s, pos + 1, Len(s))

RECURSIVE SortPairs(_)
\* stable sort of <<key, item>> pairs, ascending by key (Vec::sort_by, sort_by_key)
SortPairs(s) ==
    IF s = <<>> THEN <<>>
    ELSE InsertByKey(s[Len(s)], SortPairs(SubSeq(s, 1, Len(s) - 1)))

Items(ps) == [i \in 1..Len(ps) |-> ps[i][2]]

(***************************************************************************)
(* UTXO selector: choose_utxos.                                            *)
(***************************************************************************)
None == [tag |-> "None"]
Some(v) == [tag |-> "Some", val |-> v]

UTXO(id, vout, amt) == [tx_id |-> id, vout |-> vout, amount |-> amt]

\* the amount still to cover once the required UTXO is counted (amount -= sum)
Remaining(amount, sum) == amount - sum

\* bigger_utxos without its sort: the covering UTXOs in pool order
BiggerUtxosUnsorted(utxos, amount) ==
    FilterSeq(utxos, {i \in 1..Len(utxos) : utxos[i].amount >= amount})

\* bigger_utxos: the pool UTXOs that cover amount alone, smallest first
BiggerUtxos(utxos, amount) ==
    LET kept == FilterSeq(utxos, {i \in 1..Len(utxos) : utxos[i].amount >= amount})
    IN  Items(SortPairs([i \in 1..Len(kept) |-> <<kept[i].amount, kept[i]>>]))

\* smaller_utxos: the pool UTXOs below amount, largest first
SmallerUtxos(utxos, amount) ==
    LET kept == FilterSeq(utxos, {i \in 1..Len(utxos) : utxos[i].amount < amount})
    IN  Items(SortPairs([i \in 1..Len(kept) |-> <<0 - kept[i].amount, kept[i]>>]))

RECURSIVE TakeUntil(_, _, _, _)
\* the for loop over smaller_utxos: push, add, break once sum >= amount
TakeUntil(smaller, chosen, sum, amount) ==
    IF smaller = <<>> THEN [chosen |-> chosen, sum |-> sum]
    ELSE LET s2 == sum + smaller[1].amount
             c2 == Append(chosen, smaller[1])
         IN  IF s2 >= amount THEN [chosen |-> c2, sum |-> s2]
             ELSE TakeUntil(Tail(smaller), c2, s2, amount)

\* choose_utxos(required_utxo, utxos, amount): Ok(chosen, sum) or Err
choose_utxos(required_utxo, utxos, amount0) ==
    LET chosen0 == IF required_utxo.tag = "Some" THEN <<required_utxo.val>> ELSE <<>>
        sum0    == IF required_utxo.tag = "Some" THEN required_utxo.val.amount ELSE 0
    IN  IF sum0 >= amount0
        THEN [ok |-> TRUE, chosen |-> chosen0, sum |-> sum0]
        ELSE LET amount == Remaining(amount0, sum0)
                 bigger == BiggerUtxos(utxos, amount)
             IN  IF bigger # <<>>
                 THEN [ok |-> TRUE, chosen |-> Append(chosen0, bigger[1]),
                       sum |-> sum0 + bigger[1].amount]
                 ELSE LET r == TakeUntil(SmallerUtxos(utxos, amount), chosen0, sum0, amount)
                      IN  IF r.sum < amount
                          THEN [ok |-> FALSE, chosen |-> <<>>, sum |-> 0]
                          ELSE [ok |-> TRUE, chosen |-> r.chosen, sum |-> r.sum]

(***************************************************************************)
(* Commit builder: get_size, build_commit_transaction.                     *)
(***************************************************************************)
\* the dust threshold, crate::REVEAL_OUTPUT_AMOUNT
REVEAL_OUTPUT_AMOUNT == 546

\* the bytes of a compact-size length prefix
VarIntLen(n) == IF n < 253 THEN 1 ELSE 3

\* the bytes of a witness element of n bytes
WitnessPush(n) == VarIntLen(n) + n

\* get_size: the vsize of a version 2 transaction with these inputs (empty
\* script_sig) and outputs (34-byte taproot script_pubkey), a 64-byte dummy
\* signature in every input's witness and, for a single input given both a
\* script and a control block, these two in its witness as well (their
\* lengths in bytes, or None)
get_size(inputs, outputs, script, control_block) ==
    LET base == 4 + VarIntLen(Len(inputs)) + 41 * Len(inputs)
                + VarIntLen(Len(outputs)) + 43 * Len(outputs) + 4
        reveal == Len(inputs) = 1 /\ script.tag = "Some" /\ control_block.tag = "Some"
        witness == IF reveal
                   THEN 1 + WitnessPush(64) + WitnessPush(script.val)
                        + WitnessPush(control_block.val)
                   ELSE Len(inputs) * (1 + WitnessPush(64))
        weight == 4 * base + 2 + witness
    IN  (weight + 3) \div 4

(***************************************************************************)
(* f64 arithmetic of the fee computations.  An f64 of value 0 or >= 1 is   *)
(* kept exactly, as the natural number value * 2^52 in limbs of 16 bits,   *)
(* least significant first; every operation rounds to 53 significant bits, *)
(* ties to even, as IEEE 754 does.                                         *)
(***************************************************************************)
Limb == 2^16

LimbAt(n, i) == IF i <= Len(n) THEN n[i] ELSE 0

RECURSIVE BigTrim(_)
\* n without its most significant zero limbs
BigTrim(n) == IF n # <<>> /\ n[Len(n)] = 0 THEN BigTrim(SubSeq(n, 1, Len(n) - 1)) ELSE n

BigFromInt(v) == BigTrim(<<v % Limb, v \div Limb>>)

RECURSIVE BigMulCarry(_, _, _)
BigMulCarry(n, k, carry) ==
    IF n = <<>>
    THEN IF carry = 0 THEN <<>> ELSE <<carry % Limb>> \o BigMulCarry(n, k, carry \div Limb)
    ELSE LET t == n[1] * k + carry
         IN  <<t % Limb>> \o BigMulCarry(Tail(n), k, t \div Limb)

\* n * k for 0 <= k < 2^14
BigMulSmall(n, k) == BigMulCarry(n, k, 0)

RECURSIVE BigShl(_, _)
\* n * 2^bits
BigShl(n, bits) ==
    IF bits = 0 THEN n
    ELSE IF bits >= 12 THEN BigShl(BigMulSmall(n, 2^12), bits - 12)
    ELSE BigMulSmall(n, 2^bits)

RECURSIVE BigAddCarry(_, _, _)
BigAddCarry(a, b, carry) ==
    IF a = <<>> /\ b = <<>> THEN (IF carry = 0 THEN <<>> ELSE <<carry>>)
    ELSE LET t == LimbAt(a, 1) + LimbAt(b, 1) + carry
         IN  <<t % Limb>> \o BigAddCarry(IF a = <<>> THEN a ELSE Tail(a),
                                         IF b = <<>> THEN b ELSE Tail(b), t \div Limb)

BigAdd(a, b) == BigAddCarry(a, b, 0)

RECURSIVE BigDivFrom(_, _, _, _)
\* long division of the limbs i..1 of n by d, 0 < d < 2^14, after a remainder
BigDivFrom(n, d, i, rem) ==
    IF i = 0 THEN [q |-> <<>>, r |-> rem]
    ELSE LET cur == rem * Limb + n[i]
             rest == BigDivFrom(n, d, i - 1, cur % d)
         IN  [q |-> Append(rest.q, cur \div d), r |-> rest.r]

\* quotient and remainder of n by d
BigDivSmall(n, d) == BigDivFrom(n, d, Len(n), 0)

\* the number of significant bits of n
BigBitLen(n) ==
    LET t == BigTrim(n)
    IN  IF t = <<>> THEN 0
        ELSE 16 * (Len(t) - 1)
             + (CHOOSE k \in 1..16 : t[Len(t)] < 2^k /\ t[Len(t)] >= 2^(k - 1))

\* bit i of n, bit 0 being the least significant
BigBit(n, i) == (LimbAt(n, (i \div 16) + 1) \div (2^(i % 16))) % 2

\* n rounded to a multiple of 2^sh, sh >= 1: to the nearest, ties to even
RoundHalfEven(n, sh) ==
    LET w == sh \div 16
        b == sh % 16
        below_half == \/ \E i \in 1..((sh - 1) \div 16) : LimbAt(n, i) # 0
                      \/ (LimbAt(n, (sh - 1) \div 16 + 1) % (2^((sh - 1) % 16))) # 0
        up == BigBit(n, sh - 1) = 1 /\ (below_half \/ BigBit(n, sh) = 1)
        down == [i \in 1..Len(n) |-> IF i <= w THEN 0
                                     ELSE IF i = w + 1 THEN n[i] - (n[i] % (2^b))
                                     ELSE n[i]]
    IN  IF up THEN BigAdd(down, [i \in 1..(w + 1) |-> IF i <= w THEN 0 ELSE 2^b])
        ELSE down

\* the rounding of every f64 operation: to 53 significant bits
RoundSig(n) ==
    LET sh == BigBitLen(n) - 53
    IN  IF sh <= 0 THEN n ELSE RoundHalfEven(n, sh)

\* the f64 nearest to num / den, for 1 <= num / den < 2^6: the quotient with
\* two more bits and a sticky bit for the remainder, rounded
F64FromRatio(num, den) ==
    LET d == BigDivSmall(BigShl(BigFromInt(num), 54), den)
        sticky == IF d.r = 0 THEN d.q
                  ELSE [d.q EXCEPT ![1] = IF @ % 2 = 0 THEN @ + 1 ELSE @]
    IN  BigDivSmall(RoundSig(sticky), 4).q

\* x * (k as f64) for an integer 0 <= k < 2^14
F64MulInt(x, k) == RoundSig(BigMulSmall(x, k))

\* x + (v as f64) for an integer 0 <= v < 2^31
F64AddInt(x, v) == RoundSig(BigAdd(x, BigShl(BigFromInt(v), 52)))

\* x.ceil() as u64, for x < 2^28
F64Ceil(x) ==
    LET whole == (LimbAt(x, 4) \div 16) + LimbAt(x, 5) * (2^12)
        fraction == \/ LimbAt(x, 1) # 0 \/ LimbAt(x, 2) # 0 \/ LimbAt(x, 3) # 0
                    \/ LimbAt(x, 4) % 16 # 0
    IN  IF fraction THEN whole + 1 ELSE whole

\* fee rates in sat per vB, as numerator and denominator: the f64 nearest to
\* the quotient is the rate
FeeRates == {<<1, 1>>, <<5, 2>>, <<8, 1>>, <<45, 1>>}

\* fee rates of the reveal, as numerator and denominator
RevealFeeRates == {<<1, 1>>, <<5, 2>>}

\* a fee rate that no f64 holds exactly: 1.1 sat per vB
InexactFeeRates == {<<11, 10>>}

\* ((size as f64) * fee_rate).ceil() as u64
FeeOf(size, fee_rate) ==
    F64Ceil(F64MulInt(F64FromRatio(fee_rate[1], fee_rate[2]), size))

\* FeeOf, computed once for every fee rate and every size up to MaxVsize
FeeTable ==
    [r \in FeeRates \cup RevealFeeRates \cup InexactFeeRates |->
        [size \in 0..MaxVsize |-> FeeOf(size, r)]]

\* ((size as f64) * fee_rate).ceil() as u64, fee_rate being the f64 nearest
\* to num / den sat per vB
Fee(size, fee_rate) == FeeTable[fee_rate][size]

\* an outpoint spent with the sequence ENABLE_RBF_NO_LOCKTIME, no witness
TxIn(tx_id, vout) == [txid |-> tx_id, vout |-> vout]

TxOut(value, script_pubkey) == [value |-> value, script_pubkey |-> script_pubkey]

\* the stub of one input and one output that gives the first size
StubSize(recipient, output_value) ==
    get_size(<<TxIn(0, 0)>>, <<TxOut(output_value, recipient)>>, None, None)

\* required_utxo: output 0 of prev_tx
RequiredOf(prev_tx) ==
    IF prev_tx.tag = "Some"
    THEN Some(UTXO(prev_tx.val.id, 0, prev_tx.val.output0))
    ELSE None

\* utxos.retain left out: the whole pool stays
RetainEverything(utxos, required) == utxos

\* utxos.retain: the pool without the outpoint of the required UTXO
RetainOthers(utxos, required) ==
    IF required.tag = "Some"
    THEN FilterSeq(utxos, {i \in 1..Len(utxos) :
             ~(utxos[i].vout = required.val.vout /\ utxos[i].tx_id = required.val.tx_id)})
    ELSE utxos

\* sum - input_total on u64 when sum < input_total and the build wraps:
\* 2^64 minus the shortfall
Wrapped(shortfall) == [two_pow_64_minus |-> shortfall]

\* the outputs of an iteration of the builder's loop
CommitOutputs(recipient, change_address, output_value, change, has_change) ==
    IF ~has_change
    THEN <<TxOut(output_value, recipient)>>
    ELSE <<TxOut(output_value, recipient), TxOut(change, change_address)>>

\* the inputs of an iteration: the chosen UTXOs, in order
CommitInputs(chosen) == [i \in 1..Len(chosen) |-> TxIn(chosen[i].tx_id, chosen[i].vout)]

\* Transaction { lock_time: ZERO, version: 2, input, output }
Transaction(inputs, outputs) ==
    [lock_time |-> 0, version |-> 2, input |-> inputs, output |-> outputs]

\* one pass through the loop of build_commit_transaction: the selector's
\* error, a panic of the checked subtraction, the transaction to return, or
\* the size to try next
CommitIteration(a, required, utxos, last_size, overflow_checks) ==
    LET fee == Fee(last_size, a.fee_rate)
        input_total == a.output_value + fee
        r == choose_utxos(required, utxos, input_total)
        short == r.sum < input_total
        change == IF short THEN Wrapped(input_total - r.sum) ELSE r.sum - input_total
        has_change == short \/ change >= REVEAL_OUTPUT_AMOUNT
        outputs == CommitOutputs(a.recipient, a.change_address, a.output_value,
                                 change, has_change)
        inputs == CommitInputs(r.chosen)
        size == get_size(inputs, outputs, None, None)
    IN  IF ~r.ok THEN [kind |-> "err", msg |-> "not enough UTXOs"]
        ELSE IF short /\ overflow_checks
        THEN [kind |-> "panic", msg |-> "attempt to subtract with overflow"]
        ELSE IF ~has_change \/ size = last_size
        THEN [kind |-> "return", tx |-> Transaction(inputs, outputs)]
        ELSE [kind |-> "again", size |-> size]

RECURSIVE CommitLoop(_, _, _, _, _)
\* the end of a pass: break or return with its outcome, or loop with its size
CommitPass(a, required, utxos, overflow_checks, it) ==
    IF it.kind = "again"
    THEN CommitLoop(a, required, utxos, it.size, overflow_checks)
    ELSE it

\* the loop of build_commit_transaction, run to its end
CommitLoop(a, required, utxos, last_size, overflow_checks) ==
    CommitPass(a, required, utxos, overflow_checks,
               CommitIteration(a, required, utxos, last_size, overflow_checks))

\* build_commit_transaction(prev_tx, utxos, recipient, change_address,
\* output_value, fee_rate) as one call: the selector's error, a panic or the
\* transaction
build_commit_transaction(a, overflow_checks) ==
    CommitLoop(a, RequiredOf(a.prev_tx), RetainOthers(a.utxos, RequiredOf(a.prev_tx)),
               StubSize(a.recipient, a.output_value), overflow_checks)

(***************************************************************************)
(* Reveal script, reveal builder and the nonce loop of                     *)
(* create_inscription_transactions.                                        *)
(***************************************************************************)
\* the envelope's tags, imported from crate::helpers, as opaque bytes
ROLLUP_NAME_TAG == <<1>>
SIGNATURE_TAG == <<2>>
PUBLICKEY_TAG == <<3>>
RANDOM_TAG == <<4>>
BODY_TAG == <<>>

\* script::Builder items: an opcode, or a push of bytes
PushOpcode(name) == [op |-> name, data |-> <<>>]
PushSlice(bytes) == [op |-> "PUSHBYTES", data |-> bytes]
\* push_x_only_key: the 32 bytes of the key, kept as one symbol
PushXOnlyKey(public_key) == [op |-> "PUSHKEY", data |-> <<public_key>>]

RECURSIVE LittleEndian(_)
\* the bytes of n > 0, least significant first
LittleEndian(n) == IF n = 0 THEN <<>> ELSE <<n % 256>> \o LittleEndian(n \div 256)

\* write_scriptint for n > 0: the magnitude, and a zero byte if its top bit is set
ScriptInt(n) ==
    LET b == LittleEndian(n)
    IN  IF b[Len(b)] >= 128 THEN Append(b, 0) ELSE b

\* Builder::push_int for a nonce >= 0: OP_0, OP_PUSHNUM_1..16, or the bytes
PushInt(n) ==
    IF n = 0 THEN PushOpcode("OP_0")
    ELSE IF n \in 1..16 THEN [op |-> "OP_PUSHNUM", data |-> <<n>>]
    ELSE PushSlice(ScriptInt(n))

\* the bytes an item takes in the script
ItemLen(item) ==
    IF item.op = "PUSHBYTES"
    THEN LET n == Len(item.data)
         IN  n + (IF n < 76 THEN 1 ELSE IF n < 256 THEN 2 ELSE IF n < 65536 THEN 3 ELSE 5)
    ELSE IF item.op = "PUSHKEY" THEN 33
    ELSE 1

ScriptLen(script) == SumSeq([i \in 1..Len(script) |-> ItemLen(script[i])])

\* body.chunks(n) that drops a last chunk shorter than n (chunks_exact)
ChunksExact(body, n) ==
    [i \in 1..(Len(body) \div n) |-> SubSeq(body, (i - 1) * n + 1, i * n)]

\* body.chunks(n): consecutive chunks of n bytes, the last one the rest
Chunks(body, n) ==
    [i \in 1..((Len(body) + n - 1) \div n) |->
        SubSeq(body, (i - 1) * n + 1, IF i * n < Len(body) THEN i * n ELSE Len(body))]

\* reveal_script_builder before the loop: up to the random tag
RevealScriptBuilder(public_key, rollup_name, signature, sequencer_public_key) ==
    << PushXOnlyKey(public_key), PushOpcode("OP_CHECKSIG"), PushOpcode("OP_FALSE"),
       PushOpcode("OP_IF"),
       PushSlice(ROLLUP_NAME_TAG), PushSlice(rollup_name),
       PushSlice(SIGNATURE_TAG), PushSlice(signature),
       PushSlice(PUBLICKEY_TAG), PushSlice(sequencer_public_key),
       PushSlice(RANDOM_TAG) >>

\* the reveal script of one iteration: the nonce, the body tag, the body in
\* chunks of 520 bytes, OP_ENDIF
RevealScript(builder, nonce, body) ==
    LET chunks == Chunks(body, 520)
    IN  builder \o <<PushInt(nonce), PushSlice(BODY_TAG)>>
        \o [i \in 1..Len(chunks) |-> PushSlice(chunks[i])]
        \o <<PushOpcode("OP_ENDIF")>>

\* the taproot tree of one leaf: its merkle root is the hash of the leaf
TapLeafHash(script) == [tap_leaf |-> script]
\* Address::p2tr and p2tr_tweaked: the output key is the internal key
\* tweaked by the merkle root
P2TR(public_key, merkle_root) == [p2tr |-> [internal_key |-> public_key,
                                           merkle_root |-> merkle_root]]
\* the control block of the only leaf: its serialization is 33 bytes
ControlBlock(public_key, script) == [internal_key |-> public_key, leaf |-> script]
ControlBlockLen == 33

\* compute_txid: the hash of the transaction without its witnesses
compute_txid(tx) ==
    [txid_of |-> [version |-> tx.version, lock_time |-> tx.lock_time,
                  input |-> [i \in 1..Len(tx.input) |->
                                <<tx.input[i].txid, tx.input[i].vout>>],
                  output |-> tx.output]]

\* ((size as f64) * fee_rate + value as f64).ceil() as u64, fee_rate being
\* the f64 nearest to num / den
CeilOfSum(size, fee_rate, value) ==
    F64Ceil(F64AddInt(F64MulInt(F64FromRatio(fee_rate[1], fee_rate[2]), size), value))

\* build_reveal_transaction without its test against REVEAL_OUTPUT_AMOUNT
build_reveal_transaction_no_dust_test(input_utxo, input_txid, input_vout, recipient, output_value, fee_rate, reveal_script, control_block) ==
    LET outputs == <<TxOut(output_value, recipient)>>
        inputs == <<TxIn(input_txid, input_vout)>>
        size == get_size(inputs, outputs, Some(ScriptLen(reveal_script)),
                         Some(ControlBlockLen))
        input_total == output_value + Fee(size, fee_rate)
    IN  IF input_utxo.value < input_total
        THEN [ok |-> FALSE, err |-> "input UTXO not big enough"]
        ELSE [ok |-> TRUE, tx |-> Transaction(inputs, outputs)]

\* build_reveal_transaction
build_reveal_transaction(input_utxo, input_txid, input_vout, recipient, output_value, fee_rate, reveal_script, control_block) ==
    LET outputs == <<TxOut(output_value, recipient)>>
        inputs == <<TxIn(input_txid, input_vout)>>
        size == get_size(inputs, outputs, Some(ScriptLen(reveal_script)),
                         Some(ControlBlockLen))
        fee == Fee(size, fee_rate)
        input_total == output_value + fee
    IN  IF input_utxo.value < REVEAL_OUTPUT_AMOUNT \/ input_utxo.value < input_total
        THEN [ok |-> FALSE, err |-> "input UTXO not big enough"]
        ELSE [ok |-> TRUE, tx |-> Transaction(inputs, outputs)]

\* an address that commits to the internal key alone, not to the script
CommitAddressKeyOnly(public_key, reveal_script) == P2TR(public_key, None)

\* commit_tx_address: the taproot address of the tree whose leaf is the script
CommitAddress(public_key, reveal_script) == P2TR(public_key, TapLeafHash(reveal_script))

\* commit_value: ceil(size of the reveal * reveal_fee_rate + reveal_value)
CommitValue(recipient, reveal_value, reveal_fee_rate, reveal_script) ==
    CeilOfSum(get_size(<<TxIn(0, 0)>>, <<TxOut(reveal_value, recipient)>>,
                       Some(ScriptLen(reveal_script)), Some(ControlBlockLen)),
              reveal_fee_rate, reveal_value)

\* a prefix test that every hash passes
StartsWithAnything(hash, prefix) == TRUE

\* reveal_hash.starts_with(reveal_tx_prefix)
StartsWith(hash, prefix) ==
    /\ Len(prefix) <= Len(hash)
    /\ \A i \in 1..Len(prefix) : hash[i] = prefix[i]

\* the reveal once signed: the witness of its input holds the signature, the
\* reveal script and the serialized control block
SignedReveal(reveal_tx, public_key, output_to_reveal, reveal_script, control_block) ==
    LET signature == [schnorr_by |-> public_key,
                      sighash |-> [input |-> 0, prevouts |-> <<output_to_reveal>>,
                                   leaf_hash |-> TapLeafHash(reveal_script)]]
    IN  [reveal_tx EXCEPT !.input =
            <<[txid |-> reveal_tx.input[1].txid, vout |-> reveal_tx.input[1].vout,
               witness |-> <<signature, reveal_script, control_block>>]>>]

\* lines 449-458: the reveal built on the commit, or its error
RevealOnCommit(a, reveal_script, control_block, commit, reveal) ==
    IF ~reveal.ok THEN [kind |-> "err", msg |-> reveal.err, commit |-> commit.tx]
    ELSE [kind |-> "built", commit |-> commit.tx, reveal |-> reveal.tx,
          output_to_reveal |-> commit.tx.output[1],
          reveal_script |-> reveal_script, control_block |-> control_block]

\* lines 438-458: the error or panic of the commit builder, or the reveal
\* that spends output 0 of the commit
AfterCommit(a, reveal_script, control_block, commit) ==
    IF commit.kind # "return" THEN commit
    ELSE RevealOnCommit(a, reveal_script, control_block, commit,
             build_reveal_transaction(commit.tx.output[1], compute_txid(commit.tx), 0,
                 a.recipient, a.reveal_value, a.reveal_fee_rate, reveal_script,
                 control_block))

\* lines 396-458: the taproot tree, the commit address, commit_value, the
\* commit and the reveal of one reveal script
OnRevealScript(a, overflow_checks, public_key, reveal_script) ==
    AfterCommit(a, reveal_script, ControlBlock(public_key, reveal_script),
        build_commit_transaction(
            [prev_tx |-> a.prev_tx, utxos |-> a.utxos,
             recipient |-> CommitAddress(public_key, reveal_script),
             change_address |-> a.recipient,
             output_value |-> CommitValue(a.recipient, a.reveal_value,
                                          a.reveal_fee_rate, reveal_script),
             fee_rate |-> a.commit_fee_rate],
            overflow_checks))

\* one pass through the nonce loop up to the reveal transaction: an error of
\* one of the two builders, a panic of the commit builder, or the pair built
InscriptionIteration(a, overflow_checks, public_key, nonce) ==
    OnRevealScript(a, overflow_checks, public_key,
        RevealScript(RevealScriptBuilder(public_key, a.rollup_name, a.signature,
                                         a.sequencer_public_key), nonce, a.body))

(***************************************************************************)
(* Fork manager: ForkManager, fork_from_block_number.                      *)
(***************************************************************************)
SpecIds == {"Genesis", "Fork1", "Fork2"}

\* ForkManager::new without its sort: the kept entries in the caller's order
ForkManagerNewUnsorted(current_l2_height, active_spec, specs) ==
    [active_spec |-> active_spec,
     specs |-> FilterSeq(specs, {i \in 1..Len(specs) :
                   specs[i][1] # active_spec /\ specs[i][2] > current_l2_height}),
     migration_handlers |-> 0]

\* ForkManager::new: drop the active spec and the activations at or below
\* current_l2_height, sort the rest by activation height, no handlers
ForkManagerNew(current_l2_height, active_spec, specs) ==
    LET kept == FilterSeq(specs, {i \in 1..Len(specs) :
                    specs[i][1] # active_spec /\ specs[i][2] > current_l2_height})
    IN  [active_spec |-> active_spec,
         specs |-> Items(SortPairs([i \in 1..Len(kept) |-> <<kept[i][2], kept[i]>>])),
         migration_handlers |-> 0]

\* ForkManager::register_handler
register_handler(fm) == [fm EXCEPT !.migration_handlers = @ + 1]

\* Fork::active_fork
active_fork(fm) == fm.active_spec

\* an activation test that also fires above the head's activation height
ActivatesAtOrAbove(fm, height) == fm.specs # <<>> /\ height >= fm.specs[1][2]

\* the activation test of register_block: the queue head activates at height
Activates(fm, height) == fm.specs # <<>> /\ height = fm.specs[1][2]

\* a loop over the handlers that goes on after an error
SpecActivatedLoopNoStop(i, n, outcomes) ==
    [ok |-> \A k \in i..n : outcomes[k], calls |-> [k \in 1..(n - i + 1) |-> i + k - 1]]

RECURSIVE SpecActivatedLoop(_, _, _)
\* the loop of register_block over migration_handlers i..n: spec_activated on
\* each in turn, left at the first Err; the handlers called, in call order
SpecActivatedLoop(i, n, outcomes) ==
    IF i > n THEN [ok |-> TRUE, calls |-> <<>>]
    ELSE IF ~outcomes[i] THEN [ok |-> FALSE, calls |-> <<i>>]
    ELSE LET rest == SpecActivatedLoop(i + 1, n, outcomes)
         IN  [ok |-> rest.ok, calls |-> <<i>> \o rest.calls]

\* register_block without its pop_front: the activated entry stays at the head
register_block_no_pop(fm, height, outcomes) ==
    IF Activates(fm, height)
    THEN [fm |-> [fm EXCEPT !.active_spec = fm.specs[1][1]],
          ok |-> \A i \in 1..fm.migration_handlers : outcomes[i],
          called |-> fm.migration_handlers,
          calls |-> [i \in 1..fm.migration_handlers |-> i]]
    ELSE [fm |-> fm, ok |-> TRUE, called |-> 0, calls |-> <<>>]

\* a register_block that undoes the activation when a handler fails
register_block_atomic(fm, height, outcomes) ==
    IF Activates(fm, height)
    THEN LET run == SpecActivatedLoop(1, fm.migration_handlers, outcomes)
         IN  IF ~run.ok
             THEN [fm |-> fm, ok |-> FALSE, called |-> Len(run.calls), calls |-> run.calls]
             ELSE [fm |-> [fm EXCEPT !.active_spec = fm.specs[1][1],
                                     !.specs = Tail(fm.specs)],
                   ok |-> TRUE, called |-> Len(run.calls), calls |-> run.calls]
    ELSE [fm |-> fm, ok |-> TRUE, called |-> 0, calls |-> <<>>]

\* Fork::register_block(height); outcomes[i] is whether handler i returns Ok.
\* Gives the manager after the call, whether Ok was returned, how many
\* handlers were called and which, in call order.
register_block(fm, height, outcomes) ==
    IF Activates(fm, height)
    THEN LET activated == [fm EXCEPT !.active_spec = fm.specs[1][1]]
             run == SpecActivatedLoop(1, fm.migration_handlers, outcomes)
         IN  IF ~run.ok
             THEN [fm |-> activated, ok |-> FALSE,
                   called |-> Len(run.calls), calls |-> run.calls]
             ELSE [fm |-> [activated EXCEPT !.specs = Tail(fm.specs)], ok |-> TRUE,
                   called |-> Len(run.calls), calls |-> run.calls]
    ELSE [fm |-> fm, ok |-> TRUE, called |-> 0, calls |-> <<>>]

\* a scan that stops at the first fork whose activation is at or below the block
ForkScanFirstMatch(rest, block_number, fork) ==
    LET reached == {i \in 1..Len(rest) : block_number >= rest[i][2]}
    IN  IF reached = {} THEN fork
        ELSE rest[CHOOSE i \in reached : \A j \in reached : i <= j][1]

RECURSIVE ForkScan(_, _, _)
\* the for loop of fork_from_block_number over forks[1..]
ForkScan(rest, block_number, fork) ==
    IF rest = <<>> THEN fork
    ELSE ForkScan(Tail(rest), block_number,
                  IF block_number >= rest[1][2] THEN rest[1][1] ELSE fork)

\* fork_from_block_number(forks, block_number)
fork_from_block_number(forks, block_number) ==
    IF Len(forks) = 1 THEN forks[1][1]
    ELSE ForkScan(Tail(forks), block_number, forks[1][1])

(***************************************************************************)
(* State.                                                                  *)
(***************************************************************************)
VARIABLES
    \* choose_utxos: its arguments, its position and what it returned
    sel_required, sel_utxos, sel_amount, sel_pc, sel_result,
    \* build_commit_transaction: its arguments, whether the build checks
    \* integer overflow, required_utxo, the retained pool, last_size,
    \* iteration, its position and what it returned
    cm_args, cm_overflow_checks, cm_required, cm_utxos, cm_last_size,
    cm_iteration, cm_pc, cm_result,
    \* build_reveal_transaction: its arguments, its position, what it returned
    rv_args, rv_pc, rv_result,
    \* create_inscription_transactions: its arguments, whether the build checks
    \* integer overflow, the fresh public key, nonce, the first byte of the
    \* reveal txid of the last iteration, its position and what it returned
    ci_args, ci_overflow_checks, ci_public_key, ci_nonce, ci_reveal_hash, ci_pc,
    ci_result,
    \* a ForkManager owned by a host: the constructor's arguments, the manager,
    \* the last height registered (-1: none), what the last call returned and
    \* what kind of sequence of heights the host has registered so far, whether
    \* a call has failed, and the entries activated so far, in order, each
    \* with whether its handlers all returned Ok
    fk_new, fk_manager, fk_last, fk_result, fk_order, fk_failed, fk_activated,
    \* apply_soft_confirmation: position, arguments, the Runtime's behaviour,
    \* the working set, the receipts, the result, the Storage, the panic message
    pc, apply_args, runtime, working_set, tx_receipts, batch_receipt,
    slot_result, storage, panic,
    \* apply_soft_confirmations_from_sequencer_commitments: arguments and locals
    args, sequencer_commitments, idx, current_state_root, previous_batch_hash,
    last_commitment_end_height, state_diff, l2_height, current_spec,
    fork_manager, conf_idx, hdr_idx,
    \* the host replaying one range twice: in one call, then in two
    chain

selVars == <<sel_required, sel_utxos, sel_amount, sel_pc, sel_result>>
commitVars == <<cm_args, cm_overflow_checks, cm_required, cm_utxos, cm_last_size,
                cm_iteration, cm_pc, cm_result>>
revealVars == <<rv_args, rv_pc, rv_result>>
inscVars == <<ci_args, ci_overflow_checks, ci_public_key, ci_nonce, ci_reveal_hash,
              ci_pc, ci_result>>
forkVars == <<fk_new, fk_manager, fk_last, fk_result, fk_order, fk_failed,
              fk_activated>>
applyVars == <<pc, apply_args, runtime, working_set, tx_receipts, batch_receipt,
               slot_result, storage, panic>>
replayVars == <<args, sequencer_commitments, idx, current_state_root,
                previous_batch_hash, last_commitment_end_height, state_diff,
                l2_height, current_spec, fork_manager, conf_idx, hdr_idx>>
vars == <<selVars, commitVars, revealVars, inscVars, forkVars, applyVars, replayVars, chain>>

\* the parts of the state a specification does not use
SelOff ==
    /\ sel_required = None /\ sel_utxos = <<>> /\ sel_amount = 0
    /\ sel_pc = "off" /\ sel_result = None

CommitOff ==
    /\ cm_args = None /\ cm_overflow_checks = FALSE /\ cm_required = None
    /\ cm_utxos = <<>> /\ cm_last_size = 0 /\ cm_iteration = 0
    /\ cm_pc = "off" /\ cm_result = None

RevealOff == rv_args = None /\ rv_pc = "off" /\ rv_result = None

InscOff ==
    /\ ci_args = None /\ ci_overflow_checks = FALSE /\ ci_public_key = 0
    /\ ci_nonce = 0 /\ ci_reveal_hash = <<>> /\ ci_pc = "off" /\ ci_result = None

ForkOff ==
    /\ fk_new = None /\ fk_manager = None /\ fk_last = -1
    /\ fk_result = None /\ fk_order = "off" /\ fk_failed = FALSE
    /\ fk_activated = <<>>

ReplayOff ==
    /\ args = None /\ sequencer_commitments = <<>> /\ idx = 0
    /\ current_state_root = <<>> /\ previous_batch_hash = 0
    /\ last_commitment_end_height = None /\ state_diff = <<>>
    /\ l2_height = 0 /\ current_spec = "Genesis" /\ fork_manager = None
    /\ conf_idx = 0 /\ hdr_idx = 0

ApplyOff ==
    /\ pc = "off" /\ apply_args = None /\ runtime = None
    /\ working_set = "none" /\ tx_receipts = <<>> /\ batch_receipt = None
    /\ slot_result = None /\ storage = None /\ panic = ""

(***************************************************************************)
(* SpecSelect: one call of choose_utxos on every pool within the bounds.   *)
(***************************************************************************)
\* pools of at most MaxPool UTXOs with distinct outpoints
Pools ==
    UNION {{[i \in 1..n |-> UTXO(i, 0, a[i])] : a \in [1..n -> 1..MaxAmount]}
           : n \in 0..MaxPool}

RequiredUtxos == {None} \cup {Some(UTXO(0, 0, a)) : a \in 1..MaxAmount}

InitSelect ==
    /\ sel_required \in RequiredUtxos
    /\ sel_utxos \in Pools
    /\ sel_amount \in 0..MaxTarget
    /\ sel_pc = "call"
    /\ sel_result = None
    /\ CommitOff /\ RevealOff /\ InscOff /\ ForkOff /\ ApplyOff /\ ReplayOff /\ chain = None

ChooseUtxos ==
    /\ sel_pc = "call"
    /\ sel_result' = choose_utxos(sel_required, sel_utxos, sel_amount)
    /\ sel_pc' = "done"
    /\ UNCHANGED <<sel_required, sel_utxos, sel_amount>>
    /\ UNCHANGED <<commitVars, revealVars, inscVars, forkVars, applyVars, replayVars, chain>>

NextSelect == ChooseUtxos

SpecSelect == InitSelect /\ [][NextSelect]_vars

\* C1: every successful choose_utxos call, with or without a required UTXO,
\* returns a sum that is the total of the returned UTXOs and is >= target.
C1_SumCoversTarget ==
    (sel_pc = "done" /\ sel_result.ok) =>
        /\ sel_result.sum = SumSeq(Amounts(sel_result.chosen))
        /\ sel_result.sum >= sel_amount

(***************************************************************************)
(* SpecFork: a host that builds a ForkManager, registers handlers and      *)
(* registers blocks at heights of its choice.                              *)
(***************************************************************************)
\* fork schedules: the genesis spec, then activations at increasing heights
ForkSchedules ==
    {<<<<"Genesis", 0>>>>}
    \cup {<<<<"Genesis", 0>>, <<"Fork1", a>>>> : a \in 1..MaxHeight}
    \cup UNION {{<<<<"Genesis", 0>>, <<"Fork1", a>>, <<"Fork2", b>>>> :
                   b \in (a + 1)..MaxHeight} : a \in 1..MaxHeight}

InitFork ==
    /\ fk_new \in {[current_l2_height |-> h,
                    active_spec |-> fork_from_block_number(f, h), specs |-> f] :
                      h \in 0..MaxHeight, f \in ForkSchedules}
    /\ fk_manager = ForkManagerNew(fk_new.current_l2_height, fk_new.active_spec,
                                   fk_new.specs)
    /\ fk_last = -1
    /\ fk_result = None
    /\ fk_order = "in_order"
    /\ fk_failed = FALSE
    /\ fk_activated = <<>>
    /\ SelOff /\ CommitOff /\ RevealOff /\ InscOff /\ ApplyOff /\ ReplayOff /\ chain = None

RegisterHandler ==
    /\ fk_order # "off"
    /\ fk_manager.migration_handlers < MaxHandlers
    /\ fk_manager' = register_handler(fk_manager)
    /\ UNCHANGED <<fk_new, fk_last, fk_result, fk_order, fk_failed, fk_activated>>
    /\ UNCHANGED <<selVars, commitVars, revealVars, inscVars, applyVars, replayVars, chain>>

\* how the heights registered so far are ordered, once height follows them:
\* "in_order" (every height from the constructor's on, each once),
\* "ascending" (increasing, with a gap or a late start) or "any"
OrderAfter(order, start, last, height) ==
    IF last = -1
    THEN IF height = start THEN "in_order" ELSE "ascending"
    ELSE IF height = last + 1 THEN order
         ELSE IF height > last /\ order # "any" THEN "ascending" ELSE "any"

\* what the handlers return when register_block(height) calls them: any
\* combination on an activation; without one no handler is asked
HandlerOutcomes(fm, height) ==
    IF Activates(fm, height) THEN [1..fm.migration_handlers -> BOOLEAN]
    ELSE {[i \in 1..fm.migration_handlers |-> TRUE]}

RegisterBlock ==
    /\ fk_order # "off"
    /\ \E height \in 0..MaxHeight :
       \E outcomes \in HandlerOutcomes(fk_manager, height) :
         LET r == register_block(fk_manager, height, outcomes)
         IN  /\ Activates(fk_manager, height) => Len(fk_activated) < MaxActivations
             /\ fk_manager' = r.fm
             /\ fk_result' = Some([ok |-> r.ok, called |-> r.called,
                                   calls |-> r.calls, outcomes |-> outcomes])
             /\ fk_activated' = IF Activates(fk_manager, height)
                                THEN Append(fk_activated,
                                            [entry |-> fk_manager.specs[1], ok |-> r.ok])
                                ELSE fk_activated
             /\ fk_failed' = (fk_failed \/ ~r.ok)
             /\ fk_order' = OrderAfter(fk_order, fk_new.current_l2_height, fk_last, height)
             /\ fk_last' = height
    /\ UNCHANGED fk_new
    /\ UNCHANGED <<selVars, commitVars, revealVars, inscVars, applyVars, replayVars, chain>>

NextFork == RegisterHandler \/ RegisterBlock

SpecFork == InitFork /\ [][NextFork]_vars

\* active_fork() is the schedule's spec for the last height registered
ActiveMatchesSchedule ==
    active_fork(fk_manager) = fork_from_block_number(fk_new.specs, fk_last)

C30_ExactHeightOriginal ==
    [][fk_manager'.migration_handlers = fk_manager.migration_handlers =>
          IF fk_manager.specs # <<>> /\ fk_manager.specs[1][2] = fk_last'
          THEN /\ fk_manager'.active_spec = fk_manager.specs[1][1]
               /\ fk_manager'.specs = Tail(fk_manager.specs)
          ELSE /\ fk_manager' = fk_manager
               /\ fk_result'.val.ok]_vars

\* C30, amended: register_block(h) changes the fork manager only when the head
\* of the pending queue has activation height exactly h: then active_spec
\* becomes the head's spec, and the head is popped if every handler returned
\* Ok and stays in the queue if a handler's error is returned; for any other h
\* (above the head's activation height, or with an empty queue) the manager is
\* left unchanged and Ok is returned.
C30_ExactHeightOnly ==
    [][fk_manager'.migration_handlers = fk_manager.migration_handlers =>
          IF fk_manager.specs # <<>> /\ fk_manager.specs[1][2] = fk_last'
          THEN /\ fk_manager'.active_spec = fk_manager.specs[1][1]
               /\ fk_manager'.specs = IF fk_result'.val.ok THEN Tail(fk_manager.specs)
                                      ELSE fk_manager.specs
          ELSE /\ fk_manager' = fk_manager
               /\ fk_result'.val.ok]_vars

\* C30 witness: a block registered above the activation height of the head
\* left the head pending and the constructor's spec active
C30_Witness ==
    /\ fk_last # -1 /\ fk_manager.specs # <<>>
    /\ fk_last > fk_manager.specs[1][2]
    /\ fk_result.val.ok
    /\ fk_manager.specs[1][1] # active_fork(fk_manager)
    /\ active_fork(fk_manager) = fk_new.active_spec

\* C31: on an activation register_block calls spec_activated on the
\* registered handlers in registration order, each at most once, up to and
\* including the first one that returns an error, which is returned; if none
\* fails every handler is called exactly once and Ok is returned.  Without an
\* activation no handler is called.
C31_HandlersInOrderUntilError ==
    [][fk_manager'.migration_handlers = fk_manager.migration_handlers =>
          LET n == fk_manager.migration_handlers
              r == fk_result'.val
              failing == {i \in 1..n : ~r.outcomes[i]}
              last == IF failing = {} THEN n
                      ELSE CHOOSE i \in failing : \A j \in failing : i <= j
          IN  IF fk_manager.specs # <<>> /\ fk_manager.specs[1][2] = fk_last'
              THEN /\ r.calls = [i \in 1..last |-> i]
                   /\ r.ok = (failing = {})
              ELSE /\ r.calls = <<>>
                   /\ r.ok]_vars

\* C31 witness: of two handlers the first returned an error and the second,
\* which would have returned Ok, was not called
C31_Witness ==
    /\ fk_result # None
    /\ fk_result.val.outcomes = <<FALSE, TRUE>>
    /\ fk_result.val.calls = <<1>>
    /\ ~fk_result.val.ok

\* C36: if a migration handler returns an error during register_block, the
\* fork manager is left as it was before the call: active_fork() still
\* returns the previous spec and the pending queue still holds the
\* activation that failed.
C36_HandlerErrorLeavesManagerOriginal ==
    [][(fk_manager'.migration_handlers = fk_manager.migration_handlers
        /\ ~fk_result'.val.ok) =>
          /\ active_fork(fk_manager') = active_fork(fk_manager)
          /\ fk_manager'.specs = fk_manager.specs]_vars

\* C36, amended: if a migration handler returns an error during
\* register_block, the call was an activation of the queue head; the pending
\* queue is left as it was and still holds the activation that failed, but
\* active_fork() already returns the spec of that activation.
C36_HandlerErrorKeepsHeadOnly ==
    [][(fk_manager'.migration_handlers = fk_manager.migration_handlers
        /\ ~fk_result'.val.ok) =>
          /\ fk_manager.specs # <<>>
          /\ fk_manager.specs[1][2] = fk_last'
          /\ fk_manager'.specs = fk_manager.specs
          /\ active_fork(fk_manager') = fk_manager.specs[1][1]]_vars

\* C36 witness: after a handler's error the spec of the failed activation is
\* active, it is not the constructor's spec, and its entry heads the queue
C36_Witness ==
    /\ fk_result # None
    /\ ~fk_result.val.ok
    /\ fk_manager.specs # <<>>
    /\ active_fork(fk_manager) = fk_manager.specs[1][1]
    /\ active_fork(fk_manager) # fk_new.active_spec
    /\ fk_manager.specs[1][2] = fk_last

\* the queue the constructor built
ConstructedQueue ==
    ForkManagerNew(fk_new.current_l2_height, fk_new.active_spec, fk_new.specs).specs

\* q is what is left of whole once some of its first entries are gone
IsSuffix(q, whole) ==
    /\ Len(q) <= Len(whole)
    /\ q = SubSeq(whole, Len(whole) - Len(q) + 1, Len(whole))

\* what C37 says of the queue and of active_spec
QueueAndActiveFromConstructor ==
    /\ IsSuffix(fk_manager.specs, ConstructedQueue)
    /\ \A i, j \in 1..Len(fk_manager.specs) :
           i < j => fk_manager.specs[i][2] <= fk_manager.specs[j][2]
    /\ \/ active_fork(fk_manager) = fk_new.active_spec
       \/ \E i \in 1..Len(ConstructedQueue) :
              active_fork(fk_manager) = ConstructedQueue[i][1]

\* C37 as stated: after any sequence of register_block calls the pending
\* queue is a suffix of the constructor's queue, sorted ascending and never
\* longer than before; active_spec is the constructor's spec or the spec of
\* an entry of that queue; and each scheduled entry is activated at most once.
C37_QueueSuffixActivatedOnceOriginal ==
    /\ [](/\ QueueAndActiveFromConstructor
          /\ \A i, j \in 1..Len(fk_activated) :
                 fk_activated[i].entry = fk_activated[j].entry => i = j)
    /\ [][Len(fk_manager'.specs) <= Len(fk_manager.specs)]_vars

\* C37, amended: the same of the queue and of active_spec; each scheduled
\* entry is activated with every handler returning Ok at most once and never
\* again after that, while an activation in which a handler failed may be
\* followed by further activations of the same entry.
C37_QueueSuffixActivatedOkOnce ==
    /\ [](/\ QueueAndActiveFromConstructor
          /\ \A i, j \in 1..Len(fk_activated) :
                 (i < j /\ fk_activated[i].entry = fk_activated[j].entry)
                     => ~fk_activated[i].ok)
    /\ [][Len(fk_manager'.specs) <= Len(fk_manager.specs)]_vars

\* C37 witness: an entry activated twice, the first time with a failing
\* handler, the second time with success, and gone from the queue
C37_Witness ==
    /\ Len(fk_activated) = 2
    /\ fk_activated[1].entry = fk_activated[2].entry
    /\ ~fk_activated[1].ok /\ fk_activated[2].ok
    /\ Len(fk_manager.specs) < Len(ConstructedQueue)
    /\ active_fork(fk_manager) = fk_activated[2].entry[1]

(***************************************************************************)
(* SpecForkNew: ForkManager::new on every list of at most MaxSpecs specs,  *)
(* in any order, with any active spec.                                     *)
(***************************************************************************)
RECURSIVE SeqsUpTo(_, _)
\* the sequences of at most n elements of S
SeqsUpTo(S, n) ==
    IF n = 0 THEN {<<>>}
    ELSE LET shorter == SeqsUpTo(S, n - 1)
         IN  shorter \cup {Append(q, e) : q \in shorter, e \in S}

InitForkNew ==
    /\ fk_new \in {[current_l2_height |-> h, active_spec |-> a, specs |-> f] :
                      h \in 0..MaxHeight, a \in SpecIds,
                      f \in SeqsUpTo(SpecIds \X (0..MaxHeight), MaxSpecs)}
    /\ fk_manager = None
    /\ fk_last = -1
    /\ fk_result = None
    /\ fk_order = "new"
    /\ fk_failed = FALSE
    /\ fk_activated = <<>>
    /\ SelOff /\ CommitOff /\ RevealOff /\ InscOff /\ ApplyOff /\ ReplayOff /\ chain = None

ForkNew ==
    /\ fk_order = "new"
    /\ fk_manager' = ForkManagerNew(fk_new.current_l2_height, fk_new.active_spec,
                                    fk_new.specs)
    /\ fk_order' = "built"
    /\ UNCHANGED <<fk_new, fk_last, fk_result, fk_failed, fk_activated>>
    /\ UNCHANGED <<selVars, commitVars, revealVars, inscVars, applyVars, replayVars, chain>>

NextForkNew == ForkNew

SpecForkNew == InitForkNew /\ [][NextForkNew]_vars

\* how often e occurs in q
Occurrences(q, e) == Cardinality({i \in 1..Len(q) : q[i] = e})

\* C29: ForkManager::new(current_height, active_spec, specs) stores as pending
\* queue exactly the entries of specs whose spec differs from active_spec and
\* whose activation height is > current_height, sorted ascending by
\* activation height, and active_fork() is active_spec.
C29_NewFiltersAndSorts ==
    fk_order = "built" =>
        /\ active_fork(fk_manager) = fk_new.active_spec
        /\ \A i, j \in 1..Len(fk_manager.specs) :
               i < j => fk_manager.specs[i][2] <= fk_manager.specs[j][2]
        /\ \A e \in SpecIds \X (0..MaxHeight) :
               Occurrences(fk_manager.specs, e) =
                   IF e[1] # fk_new.active_spec /\ e[2] > fk_new.current_l2_height
                   THEN Occurrences(fk_new.specs, e) ELSE 0

\* C29 witness: two pending specs handed over in descending order, one spec
\* dropped for its height, the queue ascending
C29_Witness ==
    /\ fk_order = "built"
    /\ fk_new.specs = <<<<"Fork2", 3>>, <<"Fork1", 2>>>>
    /\ fk_new.current_l2_height = 1 /\ fk_new.active_spec = "Genesis"
    /\ fk_manager.specs = <<<<"Fork1", 2>>, <<"Fork2", 3>>>>

(***************************************************************************)
(* SpecLookup: fork_from_block_number on every schedule of at most         *)
(* MaxSpecs + 1 entries, sorted ascending by activation height, whose      *)
(* first entry is the genesis spec, and on every block number.             *)
(***************************************************************************)
RECURSIVE AscendingSchedules(_)
\* the schedules of n entries: ascending (ties included), the genesis spec
\* first
AscendingSchedules(n) ==
    IF n = 1 THEN {<<<<"Genesis", h>>>> : h \in 0..MaxHeight}
    ELSE UNION {{Append(f, <<s, h>>) : s \in SpecIds, h \in f[n - 1][2]..MaxHeight} :
                    f \in AscendingSchedules(n - 1)}

\* the schedules of at most MaxSpecs + 1 entries
SortedSchedules == UNION {AscendingSchedules(n) : n \in 1..(MaxSpecs + 1)}

InitLookup ==
    /\ fk_new \in {[current_l2_height |-> h, active_spec |-> "Genesis", specs |-> f] :
                      h \in 0..MaxHeight, f \in SortedSchedules}
    /\ fk_manager = None
    /\ fk_last = -1
    /\ fk_result = None
    /\ fk_order = "lookup"
    /\ fk_failed = FALSE
    /\ fk_activated = <<>>
    /\ SelOff /\ CommitOff /\ RevealOff /\ InscOff /\ ApplyOff /\ ReplayOff /\ chain = None

\* fork_from_block_number(specs, current_l2_height)
ForkLookup ==
    /\ fk_order = "lookup"
    /\ fk_result' = Some(fork_from_block_number(fk_new.specs, fk_new.current_l2_height))
    /\ fk_order' = "found"
    /\ UNCHANGED <<fk_new, fk_manager, fk_last, fk_failed, fk_activated>>
    /\ UNCHANGED <<selVars, commitVars, revealVars, inscVars, applyVars, replayVars, chain>>

NextLookup == ForkLookup

SpecLookup == InitLookup /\ [][NextLookup]_vars

\* the entries after the first whose activation height is at or below h
ReachedLater(f, h) == {i \in 2..Len(f) : f[i][2] <= h}

\* C32: for a schedule sorted ascending by activation height whose first
\* entry is the genesis spec, fork_from_block_number(schedule, h) is the spec
\* of a later entry with the greatest activation height <= h, and the genesis
\* spec when no later entry has its activation at or below h.
C32_GreatestActivationAtOrBelow ==
    fk_order = "found" =>
        LET f == fk_new.specs
            h == fk_new.current_l2_height
            reached == ReachedLater(f, h)
        IN  IF reached = {} THEN fk_result.val = f[1][1]
            ELSE \E i \in reached :
                    /\ \A j \in reached : f[j][2] <= f[i][2]
                    /\ fk_result.val = f[i][1]

\* C32 witness: of three entries the second is the last one reached
C32_Witness ==
    /\ fk_order = "found"
    /\ Len(fk_new.specs) = 3
    /\ ReachedLater(fk_new.specs, fk_new.current_l2_height) = {2}
    /\ fk_new.specs[2][1] = "Fork1" /\ fk_new.specs[3][1] = "Fork2"
    /\ fk_result.val = "Fork1"

(***************************************************************************)
(* apply_soft_confirmation and its four phases.                            *)
(***************************************************************************)
SeqPubKey == "sequencer_pub_key"
OtherPubKey == "other_pub_key"

\* a DA block header
Header(hash, prev_hash, height, txs_commitment) ==
    [hash |-> hash, prev_hash |-> prev_hash, height |-> height,
     txs_commitment |-> txs_commitment]

\* Hasher::digest(borsh(unsigned)): digest is the hash of the unsigned fields
Digest(soft_confirmation) == soft_confirmation.digest

\* verify_soft_confirmation_signature: the signature verifies under the key
\* that made it
verify_soft_confirmation_signature(soft_confirmation, sequencer_public_key) ==
    soft_confirmation.signer = sequencer_public_key

\* the asserts of begin_soft_confirmation, in order: the message of the first
\* that fails, "" if none does
BeginAsserts(a) ==
    IF a.soft_confirmation.sequencer_pub_key # a.sequencer_public_key
    THEN "Sequencer public key must match"
    ELSE IF a.soft_confirmation.da_slot_hash # a.slot_header.hash
    THEN "DA slot hashes must match"
    ELSE IF a.soft_confirmation.da_slot_txs_commitment # a.slot_header.txs_commitment
    THEN "DA slot hashes must match"
    ELSE ""

\* end_soft_confirmation without its signature assert
EndAssertsNoSignature(a) ==
    IF a.soft_confirmation.hash # Digest(a.soft_confirmation)
    THEN "Soft confirmation hashes must match"
    ELSE ""

\* the asserts of end_soft_confirmation, in order
EndAsserts(a) ==
    IF a.soft_confirmation.hash # Digest(a.soft_confirmation)
    THEN "Soft confirmation hashes must match"
    ELSE IF ~verify_soft_confirmation_signature(a.soft_confirmation, a.sequencer_public_key)
    THEN "Signature verification must succeed"
    ELSE ""

\* the Err arm returning the default root in place of pre_state_root
RejectedSlotResultDefaultRoot(a) ==
    [state_root |-> <<>>, batch_receipts |-> <<>>, state_diff |-> <<>>]

\* the SlotResult of the Err arm of apply_soft_confirmation
RejectedSlotResult(a) ==
    [state_root |-> a.pre_state_root, batch_receipts |-> <<>>, state_diff |-> <<>>]

\* Storage::compute_state_update on the frozen log of this block: the root
\* that follows the storage's root once the block ran under current_spec
compute_state_update(st, a) ==
    Append(st.root, [block |-> a.soft_confirmation.hash, spec |-> a.current_spec])

\* the SlotResult of finalize_soft_confirmation without the push of the receipt
FinalizedSlotResultNoReceipt(st, a, receipt) ==
    [state_root |-> compute_state_update(st, a),
     batch_receipts |-> <<>>,
     state_diff |-> <<a.soft_confirmation.hash>>]

\* the SlotResult of finalize_soft_confirmation
FinalizedSlotResult(st, a, receipt) ==
    [state_root |-> compute_state_update(st, a),
     batch_receipts |-> <<receipt>>,
     state_diff |-> <<a.soft_confirmation.hash>>]

\* a commit that is counted twice
CommitTwice(st, root) == [root |-> root, commits |-> st.commits + 2]

\* Storage::commit
Commit(st, root) ==[root |-> root, commits |-> st.commits + 1]

\* a panic: the call stack unwinds, nothing more runs
Panic(msg) ==
    /\ pc' = "panicked"
    /\ panic' = msg

\* begin_soft_confirmation, and the Err arm of apply_soft_confirmation
BeginSoftConfirmation ==
    /\ pc = "begin"
    /\ IF BeginAsserts(apply_args) # ""
       THEN /\ Panic(BeginAsserts(apply_args))
            /\ UNCHANGED <<working_set, slot_result>>
       ELSE IF apply_args.soft_confirmation.hash \in runtime.begin_err
       THEN /\ working_set' = "reverted"
            /\ slot_result' = Some(RejectedSlotResult(apply_args))
            /\ pc' = "applied"
            /\ UNCHANGED panic
       ELSE /\ working_set' = "open"
            /\ pc' = "txs"
            /\ UNCHANGED <<slot_result, panic>>
    /\ UNCHANGED <<apply_args, runtime, tx_receipts, batch_receipt, storage>>

\* apply_soft_confirmation_txs: one receipt per transaction
ApplySoftConfirmationTxs ==
    /\ pc = "txs"
    /\ tx_receipts' = [i \in 1..Len(apply_args.soft_confirmation.txs) |->
          [tx_hash |-> apply_args.soft_confirmation.txs[i],
           receipt |-> IF apply_args.soft_confirmation.txs[i] \in runtime.reverted
                       THEN "Reverted" ELSE "Successful"]]
    /\ pc' = "end"
    /\ UNCHANGED <<apply_args, runtime, working_set, batch_receipt, slot_result,
                   storage, panic>>

\* end_soft_confirmation: hash and signature asserts, the post-batch hook
\* and the unwrap of its result
EndSoftConfirmation ==
    /\ pc = "end"
    /\ IF EndAsserts(apply_args) # ""
       THEN /\ Panic(EndAsserts(apply_args))
            /\ UNCHANGED <<working_set, batch_receipt>>
       ELSE IF apply_args.soft_confirmation.hash \in runtime.end_err
       THEN /\ Panic("unwrap of the Err of the post-batch hook")
            /\ UNCHANGED <<working_set, batch_receipt>>
       ELSE /\ batch_receipt' = Some([batch_hash |-> apply_args.soft_confirmation.hash,
                                      tx_receipts |-> tx_receipts])
            /\ working_set' = "checkpoint"
            /\ pc' = "finalize"
            /\ UNCHANGED panic
    /\ UNCHANGED <<apply_args, runtime, tx_receipts, slot_result, storage>>

\* finalize_soft_confirmation: state update, finalize hook, commit
FinalizeSoftConfirmation ==
    /\ pc = "finalize"
    /\ slot_result' = Some(FinalizedSlotResult(storage, apply_args, batch_receipt.val))
    /\ storage' = Commit(storage, compute_state_update(storage, apply_args))
    /\ working_set' = "committed"
    /\ pc' = "applied"
    /\ UNCHANGED <<apply_args, runtime, tx_receipts, batch_receipt, panic>>

ApplySoftConfirmation ==
    /\ \/ BeginSoftConfirmation
       \/ ApplySoftConfirmationTxs
       \/ EndSoftConfirmation
       \/ FinalizeSoftConfirmation
    /\ UNCHANGED <<selVars, commitVars, revealVars, inscVars, forkVars, replayVars, chain>>

(***************************************************************************)
(* SpecApply: one direct call of apply_soft_confirmation, on a block whose *)
(* every checked field is right or wrong, with a Runtime whose hooks       *)
(* succeed or fail.                                                        *)
(***************************************************************************)
\* the state root of a storage that already holds one block
OneBlockRoot == <<[block |-> 0, spec |-> "Genesis"]>>

DirectBlocks ==
    {[hash |-> 1, prev_hash |-> 0, da_slot_hash |-> dh, da_slot_height |-> 10,
      da_slot_txs_commitment |-> tc, sequencer_pub_key |-> pk, digest |-> dg,
      signer |-> sg, txs |-> [i \in 1..n |-> 10 + i]] :
        dh \in {100, 199}, tc \in {200, 299}, pk \in {SeqPubKey, OtherPubKey},
        dg \in {1, 99}, sg \in {SeqPubKey, OtherPubKey}, n \in 0..MaxTxs}

Runtimes(blocks, txs) ==
    {[begin_err |-> b, end_err |-> e, reverted |-> r] :
        b \in SUBSET blocks, e \in SUBSET blocks, r \in SUBSET txs}

InitApply ==
    /\ pc = "begin"
    /\ storage \in {[root |-> r, commits |-> 0] : r \in {<<>>, OneBlockRoot}}
    /\ apply_args \in {[current_spec |-> sp, sequencer_public_key |-> SeqPubKey,
                        pre_state_root |-> storage.root,
                        slot_header |-> Header(100, 99, 10, 200),
                        soft_confirmation |-> b] :
                          sp \in SpecIds, b \in DirectBlocks}
    /\ runtime \in Runtimes({1}, {11})
    /\ working_set = "none"
    /\ tx_receipts = <<>>
    /\ batch_receipt = None
    /\ slot_result = None
    /\ panic = ""
    /\ SelOff /\ CommitOff /\ RevealOff /\ InscOff /\ ForkOff /\ ReplayOff /\ chain = None

NextApply == ApplySoftConfirmation

SpecApply == InitApply /\ [][NextApply]_vars

\* the call is over: it returned or it panicked
ApplyOver == pc \in {"applied", "panicked"}

\* what is wrong with the block of the call, read off its arguments
PubKeyMismatch ==
    apply_args.soft_confirmation.sequencer_pub_key # apply_args.sequencer_public_key
DaHashMismatch ==
    apply_args.soft_confirmation.da_slot_hash # apply_args.slot_header.hash
TxsCommitmentMismatch ==
    apply_args.soft_confirmation.da_slot_txs_commitment
        # apply_args.slot_header.txs_commitment
HashMismatch ==
    apply_args.soft_confirmation.hash # apply_args.soft_confirmation.digest
SignatureInvalid ==
    apply_args.soft_confirmation.signer # apply_args.sequencer_public_key
BeginCheckFails == PubKeyMismatch \/ DaHashMismatch \/ TxsCommitmentMismatch
EndCheckFails == HashMismatch \/ SignatureInvalid

\* the pre-batch hook is reached and returns an error
BeginHookFails ==
    /\ ~BeginCheckFails
    /\ apply_args.soft_confirmation.hash \in runtime.begin_err

\* an assert of the begin phase fails, or the begin phase passes and an
\* assert of the end phase fails
AssertFails ==
    \/ BeginCheckFails
    \/ /\ apply_args.soft_confirmation.hash \notin runtime.begin_err
       /\ EndCheckFails

\* the message of the first assert that fails
FailedAssertMessage ==
    IF PubKeyMismatch THEN "Sequencer public key must match"
    ELSE IF BeginCheckFails THEN "DA slot hashes must match"
    ELSE IF HashMismatch THEN "Soft confirmation hashes must match"
    ELSE "Signature verification must succeed"

\* the post-batch hook is reached and returns an error
EndHookFails ==
    /\ ~BeginCheckFails
    /\ apply_args.soft_confirmation.hash \notin runtime.begin_err
    /\ ~EndCheckFails
    /\ apply_args.soft_confirmation.hash \in runtime.end_err

\* the call reverted the working set and returned the empty slot result
ReturnedEmptySlot ==
    /\ pc = "applied"
    /\ working_set = "reverted"
    /\ slot_result = Some([state_root |-> apply_args.pre_state_root,
                           batch_receipts |-> <<>>, state_diff |-> <<>>])

\* C4 as stated: a failed begin- or end-phase assertion makes the call revert
\* the working set and return the empty slot result on pre_state_root.
C4_AssertReturnsEmptyOriginal ==
    (ApplyOver /\ AssertFails) => ReturnedEmptySlot

\* C4, amended: a failed begin- or end-phase assertion makes the call panic
\* with that assertion's message: no slot result is returned, the working set
\* is not reverted and storage.commit is not called.
C4_AssertPanics ==
    (ApplyOver /\ AssertFails) =>
        /\ pc = "panicked"
        /\ panic = FailedAssertMessage
        /\ slot_result = None
        /\ working_set # "reverted"
        /\ storage.commits = 0

\* C4 witness: the signature assert failed after the transactions ran
C4_Witness ==
    /\ pc = "panicked"
    /\ panic = "Signature verification must succeed"
    /\ tx_receipts # <<>>
    /\ ~HashMismatch /\ SignatureInvalid

\* C5: when the pre-batch hook returns an error the call reverts the working
\* set and returns state_root = pre_state_root, no batch receipts and an empty
\* state diff, and storage.commit is not called.
C5_BeginHookErrorRejects ==
    (pc # "begin" /\ BeginHookFails) =>
        /\ ReturnedEmptySlot
        /\ panic = ""
        /\ storage = [root |-> apply_args.pre_state_root, commits |-> 0]

\* C5 witness: a rejected block on a storage that already holds a block
C5_Witness ==
    /\ BeginHookFails
    /\ pc = "applied"
    /\ apply_args.pre_state_root = OneBlockRoot
    /\ slot_result.val.state_root = OneBlockRoot

\* C6: when the post-batch hook returns an error the call does not abort: it
\* reverts the working set and returns the empty slot result.
C6_EndHookErrorRecoverable ==
    (ApplyOver /\ EndHookFails) => ReturnedEmptySlot

\* every phase before the commit has completed, in order: the begin checks
\* and the pre-batch hook opened the working set, the dispatch left one
\* receipt per transaction, the end checks and the post-batch hook turned
\* them into the batch receipt and the checkpoint
PhasesCompleted ==
    /\ ~BeginCheckFails
    /\ apply_args.soft_confirmation.hash \notin runtime.begin_err
    /\ Len(tx_receipts) = Len(apply_args.soft_confirmation.txs)
    /\ ~EndCheckFails
    /\ apply_args.soft_confirmation.hash \notin runtime.end_err
    /\ batch_receipt = Some([batch_hash |-> apply_args.soft_confirmation.hash,
                             tx_receipts |-> tx_receipts])
    /\ working_set = "checkpoint"

\* the only step that calls storage.commit is the finalize phase, entered from
\* the end phase only; it commits the update compute_state_update returned
CommitStep ==
    /\ pc = "finalize" /\ pc' = "applied"
    /\ PhasesCompleted
    /\ storage.commits = 0
    /\ storage' = [root |-> compute_state_update(storage, apply_args), commits |-> 1]
    /\ working_set' = "committed"

SeqDaPubKey == "sequencer_da_pub_key"
OtherDaPubKey == "other_da_pub_key"

\* a Merkle root that does not depend on the leaves
MerkleTreeRootBlind(leaves) == Some([merkle_of |-> <<99>>])

\* MerkleTree::<Sha256>::from_leaves(leaves).root(): None without leaves,
\* else a digest that commits to the ordered leaves
MerkleTreeRoot(leaves) ==
    IF leaves = <<>> THEN None ELSE Some([merkle_of |-> leaves])

Hashes(confs) == [i \in 1..Len(confs) |-> confs[i].hash]

\* ExtractCommitments without the test on the sender of the blob
ExtractCommitmentsAnySender(da_data, sequencer_da_public_key) ==
    LET kept == FilterSeq(da_data, {i \in 1..Len(da_data) :
                    da_data[i].data.kind = "SequencerCommitment"})
    IN  [i \in 1..Len(kept) |-> kept[i].data.commitment]

\* the blobs of the sequencer that decode to a SequencerCommitment, in order
ExtractCommitments(da_data, sequencer_da_public_key) ==
    LET kept == FilterSeq(da_data, {i \in 1..Len(da_data) :
                    /\ da_data[i].sender = sequencer_da_public_key
                    /\ da_data[i].data.kind = "SequencerCommitment"})
    IN  [i \in 1..Len(kept) |-> kept[i].data.commitment]

\* sequencer_commitments.sort_unstable(): ascending by (l2_start, l2_end)
SortCommitments(cs) ==
    Items(SortPairs([i \in 1..Len(cs) |->
        <<cs[i].l2_start_block_number * 1000 + cs[i].l2_end_block_number, cs[i]>>]))

\* .skip(range.0).take(range.1 - range.0 + 1)
SkipTake(cs, range) ==
    SubSeq(cs, range[1] + 1,
           IF range[2] + 1 < Len(cs) THEN range[2] + 1 ELSE Len(cs))

\* SequentialOk without the assert
SequentialOkUnchecked(last_end, commitment) == TRUE

\* the sequentiality test on a commitment, given the end of the one before
SequentialOk(last_end, commitment) ==
    last_end.tag = "None" \/ last_end.val + 1 = commitment.l2_start_block_number

\* FirstConfChecks without the assert on the previous hash
FirstConfChecksNoPrevHash(conf, header, prev_hash) ==
    IF conf.da_slot_hash # header.hash
    THEN "Soft confirmation DA slot hash must match DA block header hash"
    ELSE IF conf.da_slot_height # header.height
    THEN "Soft confirmation DA slot height must match DA block header height"
    ELSE ""

\* the three asserts on the first soft confirmation of a commitment
FirstConfChecks(conf, header, prev_hash) ==
    IF conf.prev_hash # prev_hash
    THEN "Soft confirmation previous hash must match the hash of the block before"
    ELSE IF conf.da_slot_hash # header.hash
    THEN "Soft confirmation DA slot hash must match DA block header hash"
    ELSE IF conf.da_slot_height # header.height
    THEN "Soft confirmation DA slot height must match DA block header height"
    ELSE ""

\* the asserts on a later soft confirmation that names the current header
SameHeaderChecks(conf, header, prev_hash) ==
    IF conf.da_slot_height # header.height
    THEN "Soft confirmation DA slot height must match DA block header height"
    ELSE IF conf.prev_hash # prev_hash
    THEN "Soft confirmation previous hash must match the hash of the block before"
    ELSE ""

\* NextHeaderChecks without the two asserts on the order of the headers
NextHeaderChecksNoOrder(conf, headers, ih, current_da_height, prev_hash) ==
    IF ih > Len(headers)
    THEN "index out of bounds"
    ELSE IF conf.da_slot_hash # headers[ih].hash
    THEN "Soft confirmation DA slot hash must match DA block header hash"
    ELSE IF conf.da_slot_height # headers[ih].height
    THEN "Soft confirmation DA slot height must match DA block header height"
    ELSE IF conf.prev_hash # prev_hash
    THEN "Soft confirmation previous hash must match the hash of the block before"
    ELSE ""

\* the asserts once the walk moved to the next header
NextHeaderChecks(conf, headers, ih, current_da_height, prev_hash) ==
    IF ih > Len(headers)
    THEN "index out of bounds"
    ELSE IF headers[ih].height # current_da_height + 1
    THEN "DA block headers must be in order"
    ELSE IF headers[ih - 1].hash # headers[ih].prev_hash
    THEN "DA block headers must be in order"
    ELSE IF conf.da_slot_hash # headers[ih].hash
    THEN "Soft confirmation DA slot hash must match DA block header hash"
    ELSE IF conf.da_slot_height # headers[ih].height
    THEN "Soft confirmation DA slot height must match DA block header height"
    ELSE IF conf.prev_hash # prev_hash
    THEN "Soft confirmation previous hash must match the hash of the block before"
    ELSE ""

RECURSIVE WalkLoop(_, _, _, _, _, _)
\* the while loop of the header walk and the assert that follows it
WalkLoop(confs, headers, ic, ih, current_da_height, prev_hash) ==
    IF ic > Len(confs)
    THEN [msg |-> IF ih # Len(headers) THEN "All DA headers must be checked" ELSE "",
          previous_batch_hash |-> prev_hash]
    ELSE IF confs[ic].da_slot_hash = headers[ih].hash
    THEN LET m == SameHeaderChecks(confs[ic], headers[ih], prev_hash)
         IN  IF m # "" THEN [msg |-> m, previous_batch_hash |-> prev_hash]
             ELSE WalkLoop(confs, headers, ic + 1, ih, current_da_height,
                           confs[ic].hash)
    ELSE LET m == NextHeaderChecks(confs[ic], headers, ih + 1, current_da_height,
                                   prev_hash)
         IN  IF m # "" THEN [msg |-> m, previous_batch_hash |-> prev_hash]
             ELSE WalkLoop(confs, headers, ic + 1, ih + 1, current_da_height + 1,
                           confs[ic].hash)

\* the header walk of one commitment: the message of the assert that fails
\* ("" if none) and previous_batch_hash after it
HeaderWalk(confs, headers, prev_hash) ==
    IF headers = <<>> \/ confs = <<>>
    THEN [msg |-> "index out of bounds", previous_batch_hash |-> prev_hash]
    ELSE LET m == FirstConfChecks(confs[1], headers[1], prev_hash)
         IN  IF m # "" THEN [msg |-> m, previous_batch_hash |-> prev_hash]
             ELSE WalkLoop(confs, headers, 2, 1, headers[1].height, confs[1].hash)

\* ForkStateAtCommitment keeping the spec and the fork manager of the
\* commitment before instead of building them anew
ForkStateCarriedOver(forks, height, i, spec, fm) ==
    IF i > 1
    THEN [current_spec |-> spec, fork_manager |-> fm]
    ELSE LET sp == fork_from_block_number(forks, height)
         IN  [current_spec |-> sp, fork_manager |-> ForkManagerNew(height, sp, forks)]

\* current_spec and the fork manager at the start of a commitment's replay
ForkStateAtCommitment(forks, height, i, spec, fm) ==
    LET sp == fork_from_block_number(forks, height)
    IN  [current_spec |-> sp, fork_manager |-> ForkManagerNew(height, sp, forks)]

(***************************************************************************)
(* The inputs of a replay: a chain of blocks cut into commitments, spread  *)
(* over DA slots, with at most one thing wrong or unusual (a variation).   *)
(***************************************************************************)
RECURSIVE SeqOfSet(_)
\* the numbers of a set, ascending
SeqOfSet(S) ==
    IF S = {} THEN <<>>
    ELSE LET lo == CHOOSE x \in S : \A y \in S : x <= y
         IN  <<lo>> \o SeqOfSet(S \ {lo})

Reverse(q) == [i \in 1..Len(q) |-> q[Len(q) + 1 - i]]

\* the blocks <<first, last>> of each commitment when the chain of n blocks
\* is cut after the blocks in cuts
Segments(n, cuts) ==
    LET ends == SeqOfSet(cuts \cup {n})
    IN  [k \in 1..Len(ends) |-> <<IF k = 1 THEN 1 ELSE ends[k - 1] + 1, ends[k]>>]

\* the DA slot of block i when the slot advances after the blocks in steps
SlotOf(i, steps) == Cardinality({q \in steps : q < i})

\* block i (L2 height i), with variation v
BlockOf(i, steps, v) ==
    [hash |-> i,
     prev_hash |-> IF v = <<"prev_hash", i>> THEN 99 ELSE i - 1,
     da_slot_hash |-> IF v = <<"da_slot_hash", i>> THEN 199 ELSE 100 + SlotOf(i, steps),
     da_slot_height |-> IF v = <<"da_slot_height", i>> THEN 19 ELSE 10 + SlotOf(i, steps),
     da_slot_txs_commitment |->
         IF v = <<"txs_commitment", i>> THEN 299 ELSE 200 + SlotOf(i, steps),
     sequencer_pub_key |-> IF v = <<"pub_key", i>> THEN OtherPubKey ELSE SeqPubKey,
     digest |-> IF v = <<"hash", i>> THEN 99 ELSE i,
     signer |-> IF v = <<"signature", i>> THEN OtherPubKey ELSE SeqPubKey,
     txs |-> <<10 + i>>]

\* the header of DA slot sl
HeaderOf(sl) == Header(100 + sl, 99 + sl, 10 + sl, 200 + sl)

\* the soft confirmations of commitment j
ConfsOf(seg, steps, v) == [k \in 1..(seg[2] - seg[1] + 1) |-> BlockOf(seg[1] + k - 1, steps, v)]

\* the DA headers of commitment j: one per slot its blocks use
HeadersOf(j, seg, steps, v) ==
    LET lo == SlotOf(seg[1], steps)
        hi == SlotOf(seg[2], steps) + (IF v = <<"extra_header", j>> THEN 1 ELSE 0)
        hs == [k \in 1..(hi - lo + 1) |-> HeaderOf(lo + k - 1)]
    IN  [k \in 1..Len(hs) |->
            IF k = 2 /\ v = <<"header_prev", j>> THEN [hs[k] EXCEPT !.prev_hash = 199]
            ELSE IF k = 2 /\ v = <<"header_height", j>> THEN [hs[k] EXCEPT !.height = @ + 1]
            ELSE hs[k]]

WitnessesOf(j, seg, v) ==
    seg[2] - seg[1] + 1 + (IF v = <<"witness_long", j>> THEN 1 ELSE 0)
                        - (IF v = <<"witness_short", j>> THEN 1 ELSE 0)

\* the sequencer commitment over the blocks of segment j
CommitmentOf(j, seg, steps, v) ==
    LET shift == IF v[1] = "gap" /\ j >= v[2] THEN 1 ELSE 0
    IN  [l2_start_block_number |-> seg[1] + shift,
         l2_end_block_number |-> seg[2] + shift + (IF v = <<"l2_end", j>> THEN 1 ELSE 0),
         merkle_root |-> IF v = <<"merkle_root", j>> THEN [merkle_of |-> <<99>>]
                         ELSE [merkle_of |-> Hashes(ConfsOf(seg, steps, <<"none", 0>>))]]

CommitmentBlob(sender, c) ==
    [sender |-> sender, data |-> [kind |-> "SequencerCommitment", commitment |-> c]]

\* the blobs of the DA block range
DaDataOf(segs, steps, v) ==
    LET own == [j \in 1..Len(segs) |->
                    CommitmentBlob(SeqDaPubKey, CommitmentOf(j, segs[j], steps, v))]
        bogus == [l2_start_block_number |-> 0, l2_end_block_number |-> 0,
                  merkle_root |-> [merkle_of |-> <<99>>]]
    IN  IF v[1] = "reversed" THEN Reverse(own)
        ELSE IF v[1] = "noise_sender" THEN <<CommitmentBlob(OtherDaPubKey, bogus)>> \o own
        ELSE IF v[1] = "noise_kind"
        THEN <<[sender |-> SeqDaPubKey, data |-> [kind |-> "ZKProof"]]>> \o own
        ELSE IF v[1] = "noise_broken"
        THEN <<[sender |-> SeqDaPubKey, data |-> [kind |-> "Undecodable"]]>> \o own
        ELSE own

\* the arguments of the call for n blocks cut at cuts over the slots of steps
ArgsOf(n, cuts, steps, forks, v) ==
    LET segs == Segments(n, cuts)
        m == Len(segs)
        from == IF v[1] = "skip_first" THEN 2 ELSE 1
        to == IF v[1] = "queue_short" THEN m - 1 ELSE m
    IN  [sequencer_public_key |-> SeqPubKey,
         sequencer_da_public_key |-> SeqDaPubKey,
         initial_state_root |-> <<>>,
         initial_batch_hash |-> IF v[1] = "skip_first" THEN segs[1][2] ELSE 0,
         da_data |-> DaDataOf(segs, steps, v),
         sequencer_commitments_range |->
             <<from - 1, IF v[1] = "range_long" THEN m ELSE m - 1>>,
         witnesses |-> [j \in 1..(m - from + 1) |->
                           WitnessesOf(j + from - 1, segs[j + from - 1], v)],
         slot_headers |-> [j \in 1..(m - from + 1) |->
                           HeadersOf(j + from - 1, segs[j + from - 1], steps, v)],
         soft_confirmations |-> [j \in 1..(to - from + 1) |->
                           ConfsOf(segs[j + from - 1], steps, v)],
         forks |-> forks]

\* the Runtime of a scenario: which hooks fail, which transactions revert
RuntimeOf(v) ==
    [begin_err |-> IF v[1] = "begin_hook" THEN {v[2]} ELSE {},
     end_err |-> IF v[1] = "end_hook" THEN {v[2]} ELSE {},
     reverted |-> IF v[1] = "tx_reverted" THEN {10 + v[2]} ELSE {}]

BlockVariations ==
    {"prev_hash", "da_slot_hash", "da_slot_height", "txs_commitment", "pub_key",
     "hash", "signature", "begin_hook", "end_hook", "tx_reverted"}
CommitmentVariations ==
    {"l2_end", "merkle_root", "header_prev", "header_height", "extra_header",
     "witness_short", "witness_long"}
CallVariations ==
    {"queue_short", "range_long", "noise_sender", "noise_kind", "noise_broken",
     "reversed"}

Variations(n, cuts) ==
    LET m == Cardinality(cuts) + 1
    IN  {<<"none", 0>>}
        \cup (BlockVariations \X (1..n))
        \cup (CommitmentVariations \X (1..m))
        \cup ({"gap"} \X (2..m))
        \cup (CallVariations \X {0})
        \cup (IF m >= 2 THEN {<<"skip_first", 0>>} ELSE {})

\* the fork schedules of the replay: no fork, one fork, two forks in a row
ReplaySchedules ==
    {<<<<"Genesis", 0>>>>}
    \cup {<<<<"Genesis", 0>>, <<"Fork1", a>>>> : a \in 1..MaxBlocks}
    \cup {<<<<"Genesis", 0>>, <<"Fork1", a>>, <<"Fork2", a + 1>>>> : a \in 1..MaxBlocks - 1}

DefaultSchedule == <<<<"Genesis", 0>>, <<"Fork1", 2>>>>

\* every schedule on the unvaried chain, every variation under one schedule
Scenarios ==
    UNION {UNION {UNION {
        {[args |-> ArgsOf(n, cuts, steps, f, <<"none", 0>>),
          runtime |-> RuntimeOf(<<"none", 0>>)] : f \in ReplaySchedules}
        \cup
        {[args |-> ArgsOf(n, cuts, steps, DefaultSchedule, v), runtime |-> RuntimeOf(v)] :
            v \in Variations(n, cuts)}
        : steps \in SUBSET (1..n - 1)} : cuts \in SUBSET (1..n - 1)} : n \in 1..MaxBlocks}

(***************************************************************************)
(* Spec: one call of apply_soft_confirmations_from_sequencer_commitments.  *)
(***************************************************************************)
InitReplayLocals ==
    /\ sequencer_commitments = <<>> /\ idx = 0
    /\ current_state_root = <<>> /\ previous_batch_hash = 0
    /\ last_commitment_end_height = None /\ state_diff = <<>>
    /\ l2_height = 0 /\ current_spec = "Genesis" /\ fork_manager = None
    /\ conf_idx = 0 /\ hdr_idx = 0
    /\ apply_args = None /\ working_set = "none" /\ tx_receipts = <<>>
    /\ batch_receipt = None /\ slot_result = None /\ panic = ""

Init ==
    /\ \E sc \in Scenarios : args = sc.args /\ runtime = sc.runtime
    /\ storage = [root |-> <<>>, commits |-> 0]
    /\ pc = "start"
    /\ InitReplayLocals
    /\ SelOff /\ CommitOff /\ RevealOff /\ InscOff /\ ForkOff /\ chain = None

\* the commitment, soft confirmations, headers and witnesses of iteration idx
Taken == SkipTake(sequencer_commitments, args.sequencer_commitments_range)
Commitment == Taken[idx]
Confs == args.soft_confirmations[idx]
Headers == args.slot_headers[idx]

\* lines 509-532: extract, sort, initialise
StartReplay ==
    /\ pc = "start"
    /\ sequencer_commitments' = SortCommitments(
           ExtractCommitments(args.da_data, args.sequencer_da_public_key))
    /\ current_state_root' = args.initial_state_root
    /\ previous_batch_hash' = args.initial_batch_hash
    /\ last_commitment_end_height' = None
    /\ state_diff' = <<>>
    /\ idx' = 1
    /\ pc' = "commitment"
    /\ UNCHANGED <<args, l2_height, current_spec, fork_manager, conf_idx, hdr_idx>>
    /\ UNCHANGED <<apply_args, runtime, working_set, tx_receipts, batch_receipt,
                   slot_result, storage, panic>>
    /\ UNCHANGED <<selVars, commitVars, revealVars, inscVars, forkVars, chain>>

\* lines 535-558: the next item of the zip_eq chain, the sequentiality assert
NextCommitment ==
    /\ pc = "commitment"
    /\ LET has == <<idx <= Len(Taken), idx <= Len(args.soft_confirmations),
                    idx <= Len(args.slot_headers), idx <= Len(args.witnesses)>>
       IN  IF \E a \in 1..4 : has[a] # has[1]
           THEN /\ Panic("zip_eq reached the end of one iterator before the other")
                /\ UNCHANGED last_commitment_end_height
           ELSE IF ~has[1]
           THEN /\ pc' = "returned"
                /\ UNCHANGED <<panic, last_commitment_end_height>>
           ELSE IF ~SequentialOk(last_commitment_end_height, Commitment)
           THEN /\ Panic("Sequencer commitments must be sequential")
                /\ UNCHANGED last_commitment_end_height
           ELSE /\ last_commitment_end_height' = Some(Commitment.l2_end_block_number)
                /\ pc' = "headers"
                /\ UNCHANGED panic
    /\ UNCHANGED <<args, sequencer_commitments, idx, current_state_root,
                   previous_batch_hash, state_diff, l2_height, current_spec,
                   fork_manager, conf_idx, hdr_idx>>
    /\ UNCHANGED <<apply_args, runtime, working_set, tx_receipts, batch_receipt,
                   slot_result, storage>>
    /\ UNCHANGED <<selVars, commitVars, revealVars, inscVars, forkVars, chain>>

\* lines 560-654: the header walk of the commitment
VerifyHeaders ==
    /\ pc = "headers"
    /\ LET w == HeaderWalk(Confs, Headers, previous_batch_hash)
       IN  IF w.msg # ""
           THEN /\ Panic(w.msg)
                /\ UNCHANGED previous_batch_hash
           ELSE /\ previous_batch_hash' = w.previous_batch_hash
                /\ pc' = "merkle"
                /\ UNCHANGED panic
    /\ UNCHANGED <<args, sequencer_commitments, idx, current_state_root,
                   last_commitment_end_height, state_diff, l2_height, current_spec,
                   fork_manager, conf_idx, hdr_idx>>
    /\ UNCHANGED <<apply_args, runtime, working_set, tx_receipts, batch_receipt,
                   slot_result, storage>>
    /\ UNCHANGED <<selVars, commitVars, revealVars, inscVars, forkVars, chain>>

\* lines 656-679: the Merkle root assert, then the locals of the apply loop
VerifyMerkle ==
    /\ pc = "merkle"
    /\ IF MerkleTreeRoot(Hashes(Confs)) # Some(Commitment.merkle_root)
       THEN /\ Panic("Invalid merkle root")
            /\ UNCHANGED <<l2_height, current_spec, fork_manager, conf_idx, hdr_idx>>
       ELSE LET fs == ForkStateAtCommitment(args.forks, Commitment.l2_start_block_number,
                                            idx, current_spec, fork_manager)
            IN  /\ hdr_idx' = 1
                /\ l2_height' = Commitment.l2_start_block_number
                /\ current_spec' = fs.current_spec
                /\ fork_manager' = fs.fork_manager
                /\ conf_idx' = 1
                /\ pc' = "apply_loop"
                /\ UNCHANGED panic
    /\ UNCHANGED <<args, sequencer_commitments, idx, current_state_root,
                   previous_batch_hash, last_commitment_end_height, state_diff>>
    /\ UNCHANGED <<apply_args, runtime, working_set, tx_receipts, batch_receipt,
                   slot_result, storage>>
    /\ UNCHANGED <<selVars, commitVars, revealVars, inscVars, forkVars, chain>>

\* lines 683-698: the next (soft confirmation, witness) pair, its DA header
\* and the call of apply_soft_confirmation
ApplyLoopNext ==
    /\ pc = "apply_loop"
    /\ conf_idx <= Len(Confs) \/ conf_idx <= args.witnesses[idx]
    /\ IF ~(conf_idx <= Len(Confs) /\ conf_idx <= args.witnesses[idx])
       THEN /\ Panic("zip_eq reached the end of one iterator before the other")
            /\ UNCHANGED <<hdr_idx, apply_args, working_set, tx_receipts,
                           batch_receipt, slot_result>>
       ELSE LET h == IF Confs[conf_idx].da_slot_height # Headers[hdr_idx].height
                     THEN hdr_idx + 1 ELSE hdr_idx
            IN  IF h > Len(Headers)
                THEN /\ Panic("called unwrap on a None value")
                     /\ UNCHANGED <<hdr_idx, apply_args, working_set, tx_receipts,
                                    batch_receipt, slot_result>>
                ELSE /\ hdr_idx' = h
                     /\ apply_args' = [current_spec |-> current_spec,
                            sequencer_public_key |-> args.sequencer_public_key,
                            pre_state_root |-> current_state_root,
                            slot_header |-> Headers[h],
                            soft_confirmation |-> Confs[conf_idx]]
                     /\ working_set' = "none"
                     /\ tx_receipts' = <<>>
                     /\ batch_receipt' = None
                     /\ slot_result' = None
                     /\ pc' = "begin"
                     /\ UNCHANGED panic
    /\ UNCHANGED <<args, sequencer_commitments, idx, current_state_root,
                   previous_batch_hash, last_commitment_end_height, state_diff,
                   l2_height, current_spec, fork_manager, conf_idx>>
    /\ UNCHANGED <<runtime, storage>>
    /\ UNCHANGED <<selVars, commitVars, revealVars, inscVars, forkVars, chain>>

\* AfterApply without the call of register_block
AfterApplyNoRegister ==
    /\ pc = "applied"
    /\ l2_height' = l2_height + 1
    /\ conf_idx' = conf_idx + 1
    /\ pc' = "apply_loop"
    /\ UNCHANGED <<fork_manager, current_spec, panic>>
    /\ current_state_root' = slot_result.val.state_root
    /\ state_diff' = state_diff \o slot_result.val.state_diff
    /\ UNCHANGED <<args, sequencer_commitments, idx, previous_batch_hash,
                   last_commitment_end_height, hdr_idx>>
    /\ UNCHANGED <<apply_args, runtime, working_set, tx_receipts, batch_receipt,
                   slot_result, storage>>
    /\ UNCHANGED <<selVars, commitVars, revealVars, inscVars, forkVars, chain>>
\* AfterApply without the assignment to current_state_root
AfterApplyKeepRoot ==
    /\ pc = "applied"
    /\ LET r == register_block(fork_manager, l2_height, <<>>)
       IN  IF ~r.ok
           THEN /\ Panic("Fork transition failed")
                /\ UNCHANGED <<fork_manager, l2_height, current_spec, conf_idx>>
           ELSE /\ fork_manager' = r.fm
                /\ l2_height' = l2_height + 1
                /\ current_spec' = active_fork(r.fm)
                /\ conf_idx' = conf_idx + 1
                /\ pc' = "apply_loop"
                /\ UNCHANGED panic
    /\ state_diff' = state_diff \o slot_result.val.state_diff
    /\ UNCHANGED <<args, sequencer_commitments, idx, previous_batch_hash,
                   last_commitment_end_height, hdr_idx, current_state_root>>
    /\ UNCHANGED <<apply_args, runtime, working_set, tx_receipts, batch_receipt,
                   slot_result, storage>>
    /\ UNCHANGED <<selVars, commitVars, revealVars, inscVars, forkVars, chain>>

\* lines 700-711: take the result, register the block, move to the next height
AfterApply ==
    /\ pc = "applied"
    /\ LET r == register_block(fork_manager, l2_height, <<>>)
       IN  IF ~r.ok
           THEN /\ Panic("Fork transition failed")
                /\ UNCHANGED <<fork_manager, l2_height, current_spec, conf_idx>>
           ELSE /\ fork_manager' = r.fm
                /\ l2_height' = l2_height + 1
                /\ current_spec' = active_fork(r.fm)
                /\ conf_idx' = conf_idx + 1
                /\ pc' = "apply_loop"
                /\ UNCHANGED panic
    /\ current_state_root' = slot_result.val.state_root
    /\ state_diff' = state_diff \o slot_result.val.state_diff
    /\ UNCHANGED <<args, sequencer_commitments, idx, previous_batch_hash,
                   last_commitment_end_height, hdr_idx>>
    /\ UNCHANGED <<apply_args, runtime, working_set, tx_receipts, batch_receipt,
                   slot_result, storage>>
    /\ UNCHANGED <<selVars, commitVars, revealVars, inscVars, forkVars, chain>>

\* ApplyLoopEnd without the assert on the height the loop reached
ApplyLoopEndUnchecked ==
    /\ pc = "apply_loop"
    /\ ~(conf_idx <= Len(Confs) \/ conf_idx <= args.witnesses[idx])
    /\ idx' = idx + 1
    /\ pc' = "commitment"
    /\ UNCHANGED panic
    /\ UNCHANGED <<args, sequencer_commitments, current_state_root,
                   previous_batch_hash, last_commitment_end_height, state_diff,
                   l2_height, current_spec, fork_manager, conf_idx, hdr_idx>>
    /\ UNCHANGED <<apply_args, runtime, working_set, tx_receipts, batch_receipt,
                   slot_result, storage>>
    /\ UNCHANGED <<selVars, commitVars, revealVars, inscVars, forkVars, chain>>
\* line 713: the apply loop is over, the height must be the commitment's end
ApplyLoopEnd ==
    /\ pc = "apply_loop"
    /\ ~(conf_idx <= Len(Confs) \/ conf_idx <= args.witnesses[idx])
    /\ IF Commitment.l2_end_block_number # l2_height - 1
       THEN /\ Panic("assertion failed: l2_end_block_number == l2_height - 1")
            /\ UNCHANGED idx
       ELSE /\ idx' = idx + 1
            /\ pc' = "commitment"
            /\ UNCHANGED panic
    /\ UNCHANGED <<args, sequencer_commitments, current_state_root,
                   previous_batch_hash, last_commitment_end_height, state_diff,
                   l2_height, current_spec, fork_manager, conf_idx, hdr_idx>>
    /\ UNCHANGED <<apply_args, runtime, working_set, tx_receipts, batch_receipt,
                   slot_result, storage>>
    /\ UNCHANGED <<selVars, commitVars, revealVars, inscVars, forkVars, chain>>

Replay ==
    \/ StartReplay
    \/ NextCommitment
    \/ VerifyHeaders
    \/ VerifyMerkle
    \/ ApplyLoopNext
    \/ ApplySoftConfirmation
    \/ AfterApply
    \/ ApplyLoopEnd

Next == Replay

Spec == Init /\ [][Next]_vars

\* the call is inside apply_soft_confirmation
InApply == pc \in {"begin", "txs", "end", "finalize", "applied"}

\* C2: the block at every L2 height h applied during the replay gets the
\* spec fork_from_block_number(forks, h), wherever h lies in its commitment.
C2_AppliedSpecMatchesSchedule ==
    InApply => apply_args.current_spec = fork_from_block_number(args.forks, l2_height)

\* the messages of the asserts on the soundness of the range
SoundnessMessages ==
    {"Sequencer commitments must be sequential",
     "Soft confirmation previous hash must match the hash of the block before",
     "Soft confirmation DA slot hash must match DA block header hash",
     "Soft confirmation DA slot height must match DA block header height",
     "DA block headers must be in order",
     "All DA headers must be checked",
     "Invalid merkle root",
     "assertion failed: l2_end_block_number == l2_height - 1"}

\* C7: when the replay aborts on a soundness violation, storage.commit has
\* not been performed for any soft confirmation of the range.
C7_AbortLeavesNothingCommitted ==
    (pc = "panicked" /\ panic \in SoundnessMessages) => storage.commits = 0

\* the number of commitments of the range whose sequentiality assert and
\* header walk are behind the call
Sequenced ==
    IF pc = "start" THEN 0
    ELSE IF pc \in {"commitment", "panicked", "returned"} THEN idx - 1
    ELSE idx
Walked ==
    IF pc = "headers" THEN idx - 1 ELSE Sequenced

RECURSIVE FlatConfs(_)
\* the soft confirmations of the first k commitments of the range, in a row
FlatConfs(k) ==
    IF k = 0 THEN <<>> ELSE FlatConfs(k - 1) \o args.soft_confirmations[k]

\* C9: the soft confirmations of the commitments walked so far form one hash
\* chain from initial_batch_hash on, across commitment borders; a break makes
\* the replay abort before the commitment counts as walked.
C9_OneHashChain ==
    LET q == FlatConfs(Walked)
    IN  \A i \in 1..Len(q) :
            q[i].prev_hash = IF i = 1 THEN args.initial_batch_hash ELSE q[i - 1].hash

C9_Witness ==
    /\ pc = "returned"
    /\ idx - 1 >= 2
    /\ Len(FlatConfs(idx - 1)) >= 3

\* C10: every commitment past the sequentiality assert, the first one of
\* the range excepted, starts right after the end of the one before it, so no
\* soft confirmation of a commitment that does not is applied; the assert
\* never fails on the first commitment.
C10_SequentialAfterFirst ==
    /\ \A j \in 2..Sequenced :
           Taken[j].l2_start_block_number = Taken[j - 1].l2_end_block_number + 1
    /\ panic = "Sequencer commitments must be sequential" =>
           /\ idx >= 2
           /\ Taken[idx].l2_start_block_number # Taken[idx - 1].l2_end_block_number + 1

C10_Witness ==
    /\ InApply
    /\ idx >= 2
    /\ Taken[1].l2_start_block_number > 1

(***************************************************************************)
(* SpecChain: a well-formed range replayed in one call, then again in two  *)
(* calls, the second from the root, the last block hash and the committed  *)
(* state the first one left.                                               *)
(***************************************************************************)
WellFormedScenarios ==
    UNION {UNION {UNION {
        {[args |-> ArgsOf(n, cuts, steps, f, <<"none", 0>>),
          runtime |-> RuntimeOf(<<"none", 0>>)] : f \in ReplaySchedules}
        : steps \in SUBSET (1..n - 1)} : cuts \in (SUBSET (1..n - 1)) \ {{}}}
        : n \in 2..MaxBlocks}

\* the locals of a fresh call
FreshCall ==
    /\ sequencer_commitments' = <<>> /\ idx' = 0
    /\ current_state_root' = <<>> /\ previous_batch_hash' = 0
    /\ last_commitment_end_height' = None /\ state_diff' = <<>>
    /\ l2_height' = 0 /\ current_spec' = "Genesis" /\ fork_manager' = None
    /\ conf_idx' = 0 /\ hdr_idx' = 0
    /\ apply_args' = None /\ working_set' = "none" /\ tx_receipts' = <<>>
    /\ batch_receipt' = None /\ slot_result' = None /\ panic' = ""

InitChain ==
    /\ \E sc \in WellFormedScenarios :
          /\ args = sc.args /\ runtime = sc.runtime
          /\ \E k \in 1..Len(sc.args.soft_confirmations) - 1 :
                chain = [tag |-> "Chain", phase |-> "whole", split |-> k,
                         args |-> sc.args, whole_root |-> <<>>]
    /\ storage = [root |-> <<>>, commits |-> 0]
    /\ pc = "start"
    /\ InitReplayLocals
    /\ SelOff /\ CommitOff /\ RevealOff /\ InscOff /\ ForkOff

\* the whole range is done: call again on the commitments up to the split
ChainFirst ==
    /\ chain.tag = "Chain" /\ chain.phase = "whole"
    /\ pc = "returned"
    /\ chain' = [chain EXCEPT !.phase = "first", !.whole_root = current_state_root]
    /\ args' = [chain.args EXCEPT
                   !.sequencer_commitments_range = <<0, chain.split - 1>>,
                   !.soft_confirmations = SubSeq(@, 1, chain.split),
                   !.slot_headers = SubSeq(@, 1, chain.split),
                   !.witnesses = SubSeq(@, 1, chain.split)]
    /\ storage' = [root |-> <<>>, commits |-> 0]
    /\ pc' = "start"
    /\ FreshCall
    /\ UNCHANGED runtime
    /\ UNCHANGED <<selVars, commitVars, revealVars, inscVars, forkVars>>

\* the first call is done: call on the rest, from where the first one ended
ChainSecond ==
    /\ chain.tag = "Chain" /\ chain.phase = "first"
    /\ pc = "returned"
    /\ chain' = [chain EXCEPT !.phase = "second"]
    /\ args' = [chain.args EXCEPT
                   !.initial_state_root = current_state_root,
                   !.initial_batch_hash = previous_batch_hash,
                   !.sequencer_commitments_range =
                       <<chain.split, Len(chain.args.soft_confirmations) - 1>>,
                   !.soft_confirmations = SubSeq(@, chain.split + 1, Len(@)),
                   !.slot_headers = SubSeq(@, chain.split + 1, Len(@)),
                   !.witnesses = SubSeq(@, chain.split + 1, Len(@))]
    /\ pc' = "start"
    /\ FreshCall
    /\ UNCHANGED <<runtime, storage>>
    /\ UNCHANGED <<selVars, commitVars, revealVars, inscVars, forkVars>>

NextChain ==
    \/ Replay
    \/ ChainFirst
    \/ ChainSecond

SpecChain == InitChain /\ [][NextChain]_vars

\* C8: the root returned by the second of two calls over a well-formed range
\* is the root returned by one call over the whole range.
C8_TwoCallsSameRoot ==
    (chain.tag = "Chain" /\ chain.phase = "second" /\ pc = "returned")
        => current_state_root = chain.whole_root

C8_Witness ==
    /\ chain.tag = "Chain" /\ chain.phase = "second" /\ pc = "returned"
    /\ Len(current_state_root) >= 3
    /\ \E i \in 1..Len(current_state_root) : current_state_root[i].spec # "Genesis"

\* soft confirmation c names DA header h
NamesHeader(c, h) == c.da_slot_hash = h.hash /\ c.da_slot_height = h.height

\* the DA headers hs are a chain of consecutive heights
HeadersInOrder(hs) ==
    \A j \in 2..Len(hs) :
        hs[j].height = hs[j - 1].height + 1 /\ hs[j].prev_hash = hs[j - 1].hash

\* every soft confirmation of cs names the header of the one before it or
\* the header right after that one, starting on the first header
ConfsFollowHeaders(cs, hs) ==
    /\ NamesHeader(cs[1], hs[1])
    /\ \A i \in 2..Len(cs) :
           \E j \in 1..Len(hs) :
               /\ NamesHeader(cs[i - 1], hs[j])
               /\ \/ NamesHeader(cs[i], hs[j])
                  \/ j + 1 <= Len(hs) /\ NamesHeader(cs[i], hs[j + 1])

\* every header of hs is named by a soft confirmation of cs
HeadersAllNamed(cs, hs) ==
    \A j \in 1..Len(hs) : \E i \in 1..Len(cs) : NamesHeader(cs[i], hs[j])

\* C11: a commitment whose header walk succeeded has DA headers of
\* consecutive heights chained by prev_hash, soft confirmations that each
\* name the current or the next header, and no header left unnamed.
C11_WalkedHeadersJustified ==
    \A k \in 1..Walked :
        /\ HeadersInOrder(args.slot_headers[k])
        /\ ConfsFollowHeaders(args.soft_confirmations[k], args.slot_headers[k])
        /\ HeadersAllNamed(args.soft_confirmations[k], args.slot_headers[k])

C11_Witness ==
    /\ pc = "merkle"
    /\ Len(Headers) >= 2
    /\ Len(Confs) >= 3

\* the replay is applying the soft confirmations of commitment idx
Applying == InApply \/ pc = "apply_loop"

\* C12: while the soft confirmations of a commitment are applied, the
\* Merkle root over their hashes, in order, is the commitment's merkle_root
\* and its header walk is behind: both checks precede the first apply.
C12_MerkleCheckedBeforeApply ==
    Applying =>
        /\ Commitment.merkle_root = [merkle_of |-> Hashes(Confs)]
        /\ HeadersInOrder(Headers)
        /\ ConfsFollowHeaders(Confs, Headers)
        /\ HeadersAllNamed(Confs, Headers)

C12_Witness ==
    /\ pc = "begin"
    /\ idx >= 2
    /\ conf_idx = 1
    /\ Len(Confs) >= 2

\* the number of commitments of the range whose replay is complete
Completed == IF pc = "start" THEN 0 ELSE idx - 1

\* C13: a commitment whose replay completed had as many soft confirmations
\* applied as it has heights, l2_end_block_number - l2_start_block_number + 1,
\* and the soft confirmation at position k of a commitment, counted from 0,
\* is applied at height l2_start_block_number + k.
C13_BlockCountMatchesCommitment ==
    /\ \A j \in 1..Completed :
           Len(args.soft_confirmations[j]) =
               Taken[j].l2_end_block_number - Taken[j].l2_start_block_number + 1
    /\ InApply =>
           /\ apply_args.soft_confirmation = Confs[conf_idx]
           /\ l2_height = Commitment.l2_start_block_number + (conf_idx - 1)

C13_Witness ==
    /\ pc = "commitment"
    /\ idx = 2
    /\ Len(args.soft_confirmations[1]) >= 2

(***************************************************************************)
(* SpecNoise: one range replayed twice, the second time with a blob added  *)
(* to da_data that is not a commitment of the sequencer.                   *)
(***************************************************************************)
\* blobs the extraction has to ignore: another sender's commitment, a
\* DaData variant that is not a commitment, data that does not decode
ForeignBlobs ==
    {CommitmentBlob(OtherDaPubKey,
         [l2_start_block_number |-> 0, l2_end_block_number |-> 0,
          merkle_root |-> [merkle_of |-> <<99>>]]),
     CommitmentBlob(OtherDaPubKey,
         [l2_start_block_number |-> 1, l2_end_block_number |-> 1,
          merkle_root |-> [merkle_of |-> <<1>>]]),
     [sender |-> SeqDaPubKey, data |-> [kind |-> "ZKProof"]],
     [sender |-> SeqDaPubKey, data |-> [kind |-> "Undecodable"]],
     [sender |-> OtherDaPubKey, data |-> [kind |-> "Undecodable"]]}

\* da_data with blob b put after its first p blobs
WithBlob(da_data, b, p) ==
    SubSeq(da_data, 1, p) \o <<b>> \o SubSeq(da_data, p + 1, Len(da_data))

\* ranges that replay to the end, and ranges with a wrong Merkle root
NoiseScenarios ==
    UNION {UNION {UNION {
        {[args |-> ArgsOf(n, cuts, steps, DefaultSchedule, v), runtime |-> RuntimeOf(v)] :
            v \in {<<"none", 0>>, <<"reversed", 0>>, <<"merkle_root", 1>>}}
        : steps \in SUBSET (1..n - 1)} : cuts \in SUBSET (1..n - 1)} : n \in 1..MaxBlocks}

InitNoise ==
    /\ \E sc \in NoiseScenarios :
          /\ args = sc.args /\ runtime = sc.runtime
          /\ \E b \in ForeignBlobs, p \in 0..Len(sc.args.da_data) :
                chain = [tag |-> "Noise", phase |-> "plain",
                         da_data |-> WithBlob(sc.args.da_data, b, p),
                         result |-> None]
    /\ storage = [root |-> <<>>, commits |-> 0]
    /\ pc = "start"
    /\ InitReplayLocals
    /\ SelOff /\ CommitOff /\ RevealOff /\ InscOff /\ ForkOff

\* what a call that is over gave: the returned pair, or the panic
Outcome ==
    IF pc = "returned"
    THEN [returned |-> TRUE, state_root |-> current_state_root, state_diff |-> state_diff]
    ELSE [returned |-> FALSE, panic |-> panic]

\* the first call is over: call again from the same state with the extra blob
NoiseAgain ==
    /\ chain.tag = "Noise" /\ chain.phase = "plain"
    /\ pc \in {"returned", "panicked"}
    /\ chain' = [chain EXCEPT !.phase = "noisy", !.result = Outcome]
    /\ args' = [args EXCEPT !.da_data = chain.da_data]
    /\ storage' = [root |-> <<>>, commits |-> 0]
    /\ pc' = "start"
    /\ FreshCall
    /\ UNCHANGED runtime
    /\ UNCHANGED <<selVars, commitVars, revealVars, inscVars, forkVars>>

NextNoise ==
    \/ Replay
    \/ NoiseAgain

SpecNoise == InitNoise /\ [][NextNoise]_vars

\* C14: a replay whose da_data has one more blob that is not a commitment
\* of the sequencer (another sender, another DaData variant, undecodable)
\* returns the same state root and the same cumulative diff.
C14_ForeignBlobsIgnored ==
    (chain.tag = "Noise" /\ chain.phase = "noisy" /\ pc \in {"returned", "panicked"})
        => Outcome = chain.result

C14_Witness ==
    /\ chain.tag = "Noise" /\ chain.phase = "noisy" /\ pc = "returned"
    /\ chain.da_data[1].sender = OtherDaPubKey
    /\ chain.da_data[1].data.kind = "SequencerCommitment"
    /\ Len(state_diff) >= 2

\* C15: a call of apply_soft_confirmation that returns gives, for a block
\* the pre-batch hook rejects, no batch receipt and state_root =
\* pre_state_root, and for any other block exactly one batch receipt and the
\* root of compute_state_update, which is the root committed to storage.
C15_OneReceiptOrNone ==
    pc = "applied" =>
        IF BeginHookFails
        THEN /\ slot_result.val.batch_receipts = <<>>
             /\ slot_result.val.state_root = apply_args.pre_state_root
             /\ storage.commits = 0
        ELSE /\ Len(slot_result.val.batch_receipts) = 1
             /\ slot_result.val.batch_receipts[1].batch_hash
                    = apply_args.soft_confirmation.hash
             /\ slot_result.val.state_root =
                    Append(apply_args.pre_state_root,
                           [block |-> apply_args.soft_confirmation.hash,
                            spec |-> apply_args.current_spec])
             /\ storage = [root |-> slot_result.val.state_root, commits |-> 1]

C15_Witness ==
    /\ pc = "applied"
    /\ working_set = "committed"
    /\ Len(slot_result.val.batch_receipts) = 1
    /\ \E i \in 1..Len(tx_receipts) : tx_receipts[i].receipt = "Reverted"

\* C16: soft confirmations are applied in the order of the commitment's
\* vector, one height after the other; the height, the fork manager and the
\* current spec change only between two applies, in the one step that calls
\* register_block for the height just applied (or when a commitment starts),
\* and the spec a block is applied with is the active one all along.
C16_ForkStepsBetweenBlocks ==
    [][/\ InApply =>
             /\ apply_args.soft_confirmation = Confs[conf_idx]
             /\ apply_args.current_spec = current_spec
             /\ active_fork(fork_manager) = current_spec
       /\ (pc = "applied" /\ pc' = "apply_loop") =>
             /\ l2_height' = l2_height + 1
             /\ conf_idx' = conf_idx + 1
             /\ fork_manager' = register_block(fork_manager, l2_height, <<>>).fm
             /\ current_spec' = active_fork(fork_manager')
       /\ (pc # "applied" /\ pc # "merkle") =>
             UNCHANGED <<l2_height, fork_manager, current_spec, conf_idx>>
      ]_vars

C16_Witness ==
    /\ pc = "begin"
    /\ idx = 1
    /\ conf_idx >= 2
    /\ current_spec = "Fork1"
    /\ current_state_root # <<>>
    /\ current_state_root[1].spec = "Genesis"

\* the positions of the pool whose UTXO covers the target alone
Covering == {i \in 1..Len(sel_utxos) : sel_utxos[i].amount >= sel_amount}

\* the smallest covering UTXO, the earliest in the pool among equal amounts
SmallestCovering ==
    sel_utxos[CHOOSE i \in Covering :
                  \A j \in Covering :
                      \/ sel_utxos[i].amount < sel_utxos[j].amount
                      \/ sel_utxos[i].amount = sel_utxos[j].amount /\ i <= j]

\* C17 as stated: without a required UTXO, for every pool and target, if a
\* single pool UTXO covers the target the selection is that one UTXO, the
\* smallest such, the earliest in pool order among equals.
C17_SingleSmallestOriginal ==
    (sel_pc = "done" /\ sel_required = None /\ Covering # {}) =>
        /\ sel_result.ok
        /\ sel_result.chosen = <<SmallestCovering>>

\* C17, amended: the same for every target >= 1; for target 0 the selection
\* is empty, with sum 0, whatever the pool holds.
C17_SingleSmallestPositiveTarget ==
    (sel_pc = "done" /\ sel_required = None) =>
        /\ (sel_amount >= 1 /\ Covering # {}) =>
               /\ sel_result.ok
               /\ sel_result.chosen = <<SmallestCovering>>
               /\ sel_result.sum = SmallestCovering.amount
        /\ sel_amount = 0 =>
               sel_result = [ok |-> TRUE, chosen |-> <<>>, sum |-> 0]

\* C17 witness: two UTXOs of the smallest covering amount, behind a larger one
C17_Witness ==
    /\ sel_pc = "done" /\ sel_required = None
    /\ sel_amount = 2
    /\ Amounts(sel_utxos) = <<3, 2, 2>>
    /\ sel_result.chosen = <<sel_utxos[2]>>

\* the amount of the required UTXO, if any, plus the amounts of the pool
TotalFunds ==
    (IF sel_required.tag = "Some" THEN sel_required.val.amount ELSE 0)
    + SumSeq(Amounts(sel_utxos))

\* C18: choose_utxos fails (with 'not enough UTXOs') if and only if the
\* required UTXO and the whole pool together hold less than the target.
C18_FailsIffFundsShort ==
    sel_pc = "done" => (~sel_result.ok <=> TotalFunds < sel_amount)

\* the pool in descending order of amount, equal amounts in pool order
Descending(utxos) ==
    Items(SortPairs([i \in 1..Len(utxos) |-> <<0 - utxos[i].amount, utxos[i]>>]))

\* the required UTXO, if any, as a list
RequiredList == IF sel_required.tag = "Some" THEN <<sel_required.val>> ELSE <<>>

\* the prefixes of the descending pool that, with the required UTXO, total
\* at least the target
CoveringPrefixes ==
    {k \in 0..Len(sel_utxos) :
        SumSeq(Amounts(RequiredList \o SubSeq(Descending(sel_utxos), 1, k))) >= sel_amount}

\* no pool UTXO alone covers what remains of the target after the required UTXO
NoSingleCovers ==
    /\ SumSeq(Amounts(RequiredList)) < sel_amount
    /\ \A i \in 1..Len(sel_utxos) :
           sel_utxos[i].amount < sel_amount - SumSeq(Amounts(RequiredList))

\* C26: when no pool UTXO alone covers the remaining target, choose_utxos
\* returns the required UTXO (if any) followed by the pool UTXOs in descending
\* order of amount, up to the shortest prefix whose total, required included,
\* is >= target.
C26_GreedyShortestPrefix ==
    (sel_pc = "done" /\ NoSingleCovers /\ CoveringPrefixes # {}) =>
        /\ sel_result.ok
        /\ \E k \in CoveringPrefixes :
              /\ \A j \in CoveringPrefixes : k <= j
              /\ sel_result.chosen = RequiredList \o SubSeq(Descending(sel_utxos), 1, k)

(***************************************************************************)
(* SpecCommit: one call of build_commit_transaction, with or without a     *)
(* prev_tx, on pools that may list the outpoint of prev_tx or a sibling of  *)
(* it, built with or without overflow checks.                              *)
(***************************************************************************)
CommitAmounts == {600, 6000, 10000}

\* pools of at most MaxPool UTXOs with distinct outpoints; the first one may
\* be output 0 or output 1 of prev_tx (transaction id 0)
CommitPools ==
    UNION {{[i \in 1..n |-> IF i = 1 THEN UTXO(first[1], first[2], a[i])
                            ELSE UTXO(i, 0, a[i])] :
               a \in [1..n -> CommitAmounts], first \in {<<1, 0>>, <<0, 0>>, <<0, 1>>}}
           : n \in 0..MaxPool}

PrevTxs == {None} \cup {Some([id |-> 0, output0 |-> v]) : v \in {600, 10000}}

InitCommit ==
    /\ cm_args \in {[prev_tx |-> pt, utxos |-> us, recipient |-> "recipient",
                     change_address |-> "change_address", output_value |-> ov,
                     fee_rate |-> fr] :
                       pt \in PrevTxs, us \in CommitPools, ov \in {546, 5000},
                       fr \in FeeRates}
    /\ cm_overflow_checks \in BOOLEAN
    /\ cm_required = None
    /\ cm_utxos = <<>>
    /\ cm_last_size = 0
    /\ cm_iteration = 0
    /\ cm_pc = "call"
    /\ cm_result = None
    /\ SelOff /\ RevealOff /\ InscOff /\ ForkOff /\ ApplyOff /\ ReplayOff /\ chain = None

\* lines 141-177: the stub's size, required_utxo, the retained pool
BuildCommitStart ==
    /\ cm_pc = "call"
    /\ cm_last_size' = StubSize(cm_args.recipient, cm_args.output_value)
    /\ cm_required' = RequiredOf(cm_args.prev_tx)
    /\ cm_utxos' = RetainOthers(cm_args.utxos, RequiredOf(cm_args.prev_tx))
    /\ cm_iteration' = 0
    /\ cm_pc' = "loop"
    /\ UNCHANGED <<cm_args, cm_overflow_checks, cm_result>>
    /\ UNCHANGED <<selVars, revealVars, inscVars, forkVars, applyVars, replayVars, chain>>

\* lines 179-250: one pass through the loop
BuildCommitIterate ==
    /\ cm_pc = "loop"
    /\ \E it \in {CommitIteration(cm_args, cm_required, cm_utxos, cm_last_size,
                                  cm_overflow_checks)} :
           IF it.kind = "err"
           THEN /\ cm_pc' = "failed"
                /\ cm_result' = [err |-> it.msg]
                /\ UNCHANGED <<cm_last_size, cm_iteration>>
           ELSE IF it.kind = "panic"
           THEN /\ cm_pc' = "panicked"
                /\ cm_result' = [panic |-> it.msg]
                /\ UNCHANGED <<cm_last_size, cm_iteration>>
           ELSE IF it.kind = "return"
           THEN /\ cm_pc' = "returned"
                /\ cm_result' = [tx |-> it.tx]
                /\ UNCHANGED <<cm_last_size, cm_iteration>>
           ELSE /\ cm_last_size' = it.size
                /\ cm_iteration' = cm_iteration + 1
                /\ UNCHANGED <<cm_pc, cm_result>>
    /\ UNCHANGED <<cm_args, cm_overflow_checks, cm_required, cm_utxos>>
    /\ UNCHANGED <<selVars, revealVars, inscVars, forkVars, applyVars, replayVars, chain>>

NextCommit ==
    \/ BuildCommitStart
    \/ BuildCommitIterate

SpecCommit == InitCommit /\ [][NextCommit]_vars

\* the calls the termination check runs on: pools of at most MaxLivePool
\* UTXOs beside the required one
InitCommitLive ==
    /\ InitCommit
    /\ Len(cm_args.utxos) <= MaxLivePool

\* the builder runs on: no pass through the loop is put off for ever
SpecCommitFair == InitCommitLive /\ [][NextCommit]_vars /\ WF_vars(NextCommit)

\* the UTXOs the builder may spend: required_utxo and the retained pool
Spendable ==
    (IF cm_required.tag = "Some" THEN <<cm_required.val>> ELSE <<>>) \o cm_utxos

\* the amount of the UTXO that input inp spends
AmountOf(inp) ==
    LET u == CHOOSE u \in {Spendable[i] : i \in 1..Len(Spendable)} :
                 u.tx_id = inp.txid /\ u.vout = inp.vout
    IN  u.amount

\* the sum of the amounts the inputs of the returned transaction spend
InputSum ==
    SumSeq([i \in 1..Len(cm_result.tx.input) |-> AmountOf(cm_result.tx.input[i])])

\* the change of the final pass: inputs - output_value - fee, as an integer
FinalChange ==
    InputSum - cm_args.output_value - Fee(cm_last_size, cm_args.fee_rate)

\* C19: a returned commit transaction has exactly one output, output_value
\* to the recipient, if the change of the final pass is below
\* REVEAL_OUTPUT_AMOUNT; otherwise it has exactly two, the second paying the
\* change, >= REVEAL_OUTPUT_AMOUNT, to the change address.
C19_ChangeDustRule ==
    cm_pc = "returned" =>
        IF FinalChange < REVEAL_OUTPUT_AMOUNT
        THEN cm_result.tx.output = <<TxOut(cm_args.output_value, cm_args.recipient)>>
        ELSE cm_result.tx.output = <<TxOut(cm_args.output_value, cm_args.recipient),
                                     TxOut(FinalChange, cm_args.change_address)>>

\* the outpoints of the inputs of the returned transaction, in order
InputOutpoints ==
    [i \in 1..Len(cm_result.tx.input) |->
        <<cm_result.tx.input[i].txid, cm_result.tx.input[i].vout>>]

\* C27: given prev_tx, output 0 of prev_tx is input 0 of the returned commit
\* transaction, no outpoint appears twice among its inputs even if the pool
\* lists that outpoint, and the pool UTXOs at other vouts of prev_tx stay in
\* the pool the selector chooses from.
C27_PrevTxFirstAndOnce ==
    (cm_pc = "returned" /\ cm_args.prev_tx.tag = "Some") =>
        /\ InputOutpoints[1] = <<cm_args.prev_tx.val.id, 0>>
        /\ \A i, j \in 1..Len(InputOutpoints) :
               InputOutpoints[i] = InputOutpoints[j] => i = j
        /\ \A i \in 1..Len(cm_args.utxos) :
               (cm_args.utxos[i].tx_id = cm_args.prev_tx.val.id
                   /\ cm_args.utxos[i].vout # 0)
               => \E k \in 1..Len(cm_utxos) : cm_utxos[k] = cm_args.utxos[i]

\* C27 witness: the pool lists output 0 of prev_tx, and the returned
\* transaction spends it once, first, and a pool UTXO after it
C27_Witness ==
    /\ cm_pc = "returned" /\ cm_args.prev_tx.tag = "Some"
    /\ \E i \in 1..Len(cm_args.utxos) :
           cm_args.utxos[i].tx_id = cm_args.prev_tx.val.id /\ cm_args.utxos[i].vout = 0
    /\ Len(cm_result.tx.input) = 2
    /\ InputOutpoints[1] = <<cm_args.prev_tx.val.id, 0>>

\* C28: a returned transaction with two outputs is a fee fixed point: output
\* 0 is output_value, and the change output is the sum of the chosen inputs
\* - output_value - ceil(vsize * fee_rate), vsize being the measured size of
\* that same transaction.
C28_TwoOutputsFeeFixedPoint ==
    (cm_pc = "returned" /\ Len(cm_result.tx.output) = 2) =>
        /\ cm_result.tx.output[1].value = cm_args.output_value
        /\ LET change == InputSum - cm_args.output_value
                          - Fee(get_size(cm_result.tx.input, cm_result.tx.output,
                                         None, None), cm_args.fee_rate)
           IN  \* an amount in satoshis is that difference only if it is not negative
               /\ change >= 0
               /\ cm_result.tx.output[2].value = change

\* C35: every transaction returned by build_commit_transaction pays at least
\* the requested fee rate for its own size: the sum of its input amounts
\* minus the sum of its output values is >= ceil(vsize * fee_rate), vsize
\* being the size of the returned transaction, also when the transaction of
\* one output is returned without being measured.
C35_PaysFeeForOwnSize ==
    cm_pc = "returned" =>
        LET tx == cm_result.tx
            own_fee == Fee(get_size(tx.input, tx.output, None, None), cm_args.fee_rate)
        IN  IF Len(tx.output) = 2
            THEN \* a change that wrapped pays out more than the inputs hold
                 /\ FinalChange >= 0
                 /\ InputSum - tx.output[1].value - tx.output[2].value >= own_fee
            ELSE InputSum - tx.output[1].value >= own_fee

\* C20: the fee-convergence loop terminates, either returning a transaction
\* or propagating the selector's 'not enough UTXOs' error.
C20_LoopEndsInTxOrError ==
    <>(\/ cm_pc = "returned"
       \/ cm_pc = "failed" /\ cm_result = [err |-> "not enough UTXOs"])

(***************************************************************************)
(* SpecReveal: one call of build_reveal_transaction on input values around *)
(* the dust threshold and around what the output and the fee need.         *)
(***************************************************************************)
\* the bodies of three lengths, byte i of a body being i modulo 256
BodyOf(n) == [i \in 1..n |-> i % 256]

\* reveal scripts of three sizes
RevealScripts ==
    {RevealScript(RevealScriptBuilder(1, <<114>>, <<100, 100>>, <<100>>), nonce, BodyOf(n)) :
        nonce \in {0, 17}, n \in {0, 3, 521}}

\* the values of the UTXO the reveal spends
RevealInputValues == 0..1500

InitReveal ==
    /\ rv_args \in {[input_utxo |-> TxOut(v, "commit_address"), input_txid |-> 9,
                     input_vout |-> vout, recipient |-> "recipient",
                     output_value |-> ov, fee_rate |-> fr, reveal_script |-> sc,
                     control_block |-> ControlBlock(1, sc)] :
                       v \in RevealInputValues, vout \in {0, 1}, ov \in {100, 546},
                       fr \in RevealFeeRates, sc \in RevealScripts}
    /\ rv_pc = "call"
    /\ rv_result = None
    /\ SelOff /\ CommitOff /\ InscOff /\ ForkOff /\ ApplyOff /\ ReplayOff /\ chain = None

BuildReveal ==
    /\ rv_pc = "call"
    /\ rv_result' = build_reveal_transaction(rv_args.input_utxo, rv_args.input_txid,
                        rv_args.input_vout, rv_args.recipient, rv_args.output_value,
                        rv_args.fee_rate, rv_args.reveal_script, rv_args.control_block)
    /\ rv_pc' = "done"
    /\ UNCHANGED rv_args
    /\ UNCHANGED <<selVars, commitVars, inscVars, forkVars, applyVars, replayVars, chain>>

NextReveal == BuildReveal

SpecReveal == InitReveal /\ [][NextReveal]_vars

\* the vsize of the reveal with its witness of dummy signature, script and
\* control block
RevealVsize ==
    get_size(<<TxIn(rv_args.input_txid, rv_args.input_vout)>>,
             <<TxOut(rv_args.output_value, rv_args.recipient)>>,
             Some(ScriptLen(rv_args.reveal_script)), Some(ControlBlockLen))

\* output_value + ceil(vsize * fee_rate)
RevealNeed == rv_args.output_value + Fee(RevealVsize, rv_args.fee_rate)

\* C21: build_reveal_transaction fails with 'input UTXO not big enough'
\* exactly when the input value is below REVEAL_OUTPUT_AMOUNT or below
\* output_value + ceil(vsize * fee_rate); otherwise it returns an unsigned
\* transaction with exactly one input spending (input_txid, input_vout) and
\* exactly one output paying output_value to the recipient.
C21_RevealFailsIffInputSmall ==
    rv_pc = "done" =>
        IF \/ rv_args.input_utxo.value < REVEAL_OUTPUT_AMOUNT
           \/ rv_args.input_utxo.value < RevealNeed
        THEN rv_result = [ok |-> FALSE, err |-> "input UTXO not big enough"]
        ELSE /\ rv_result.ok
             /\ rv_result.tx.input = <<TxIn(rv_args.input_txid, rv_args.input_vout)>>
             /\ rv_result.tx.output = <<TxOut(rv_args.output_value, rv_args.recipient)>>

\* C21 witness: an input that covers output and fee fails for being below
\* the dust threshold
C21_Witness ==
    /\ rv_pc = "done"
    /\ rv_args.input_utxo.value >= RevealNeed
    /\ rv_args.input_utxo.value < REVEAL_OUTPUT_AMOUNT
    /\ ~rv_result.ok

(***************************************************************************)
(* SpecInscribe: one call of create_inscription_transactions, on pools     *)
(* that hold what the first nonce needs, a little more, or much more.      *)
(***************************************************************************)
\* the arguments that every call of the model shares
RollupName == <<114>>
BlobSignature == <<100, 100>>
SequencerPublicKey == <<100>>

\* what the commit of nonce 0 needs from a pool of one UTXO: commit_value
\* and the fee of a commit of one input and one output
NonceZeroNeed(body, reveal_value, reveal_fee_rate, commit_fee_rate) ==
    CommitValue("recipient", reveal_value, reveal_fee_rate,
                RevealScript(RevealScriptBuilder(1, RollupName, BlobSignature,
                                                 SequencerPublicKey), 0, body))
    + Fee(StubSize("recipient", reveal_value), commit_fee_rate)

\* the bodies: short ones of every length modulo 4, one whose reveal measures
\* 170 vB, and ones around one and two chunks of 520 bytes
InscribeBodies == {BodyOf(n) : n \in {0, 1, 2, 3, 142, 520, 521, 1041}}

\* the first byte of a reveal txid, as far as the search tells them apart
RevealHashes == {<<0>>, <<1>>}

\* the fresh keys of the commit keypair
PublicKeys == {1, 2}

\* the pools: empty, or one UTXO holding the need of nonce 0 plus a margin
InscribePools(body, reveal_value, reveal_fee_rate, commit_fee_rate) ==
    {<<>>} \cup
    {<<UTXO(1, 0, NonceZeroNeed(body, reveal_value, reveal_fee_rate, commit_fee_rate) + d)>> :
        d \in {0, 1, 5000}}

InscribeCalls ==
    UNION {{[rollup_name |-> RollupName, body |-> body, signature |-> BlobSignature,
             sequencer_public_key |-> SequencerPublicKey, prev_tx |-> pt, utxos |-> us,
             recipient |-> "recipient", reveal_value |-> rv, commit_fee_rate |-> cfr,
             reveal_fee_rate |-> rfr, network |-> "bitcoin", reveal_tx_prefix |-> px] :
               pt \in {None, Some([id |-> 0, output0 |-> 600])},
               px \in {<<>>, <<0>>},
               us \in InscribePools(body, rv, rfr, cfr)} :
           body \in InscribeBodies, rv \in {100, 546},
           cfr \in RevealFeeRates, rfr \in RevealFeeRates \cup InexactFeeRates}

InitInscribe ==
    /\ ci_args \in InscribeCalls
    /\ ci_overflow_checks \in BOOLEAN
    /\ ci_public_key = 0
    /\ ci_nonce = 0
    /\ ci_reveal_hash = <<>>
    /\ ci_pc = "call"
    /\ ci_result = None
    /\ SelOff /\ CommitOff /\ RevealOff /\ ForkOff /\ ApplyOff /\ ReplayOff /\ chain = None

\* lines 340-366: the fresh keypair, the script builder, nonce = 0
InscribeStart ==
    /\ ci_pc = "call"
    /\ ci_public_key' \in PublicKeys
    /\ ci_nonce' = 0
    /\ ci_pc' = "loop"
    /\ UNCHANGED <<ci_args, ci_overflow_checks, ci_reveal_hash, ci_result>>
    /\ UNCHANGED <<selVars, commitVars, revealVars, forkVars, applyVars, replayVars, chain>>

\* lines 367-514: one pass through the nonce loop
InscribeIterate ==
    /\ ci_pc = "loop"
    /\ ci_nonce <= MaxNonce
    /\ \E it \in {InscriptionIteration(ci_args, ci_overflow_checks, ci_public_key,
                                       ci_nonce)} :
         IF it.kind = "err"
         THEN /\ ci_pc' = "failed"
              /\ ci_result' = [err |-> it.msg]
              /\ UNCHANGED <<ci_nonce, ci_reveal_hash>>
         ELSE IF it.kind = "panic"
         THEN /\ ci_pc' = "panicked"
              /\ ci_result' = [panic |-> it.msg]
              /\ UNCHANGED <<ci_nonce, ci_reveal_hash>>
         ELSE \E reveal_hash \in RevealHashes :
                /\ ci_reveal_hash' = reveal_hash
                /\ IF StartsWith(reveal_hash, ci_args.reveal_tx_prefix)
                   THEN /\ ci_pc' = "returned"
                        /\ ci_result' =
                             [commit |-> it.commit,
                              reveal |-> [id |-> compute_txid(it.reveal),
                                          tx |-> SignedReveal(it.reveal, ci_public_key,
                                                     it.output_to_reveal,
                                                     it.reveal_script, it.control_block)]]
                        /\ UNCHANGED ci_nonce
                   ELSE /\ ci_nonce' = ci_nonce + 1
                        /\ UNCHANGED <<ci_pc, ci_result>>
    /\ UNCHANGED <<ci_args, ci_overflow_checks, ci_public_key>>
    /\ UNCHANGED <<selVars, commitVars, revealVars, forkVars, applyVars, replayVars, chain>>

NextInscribe ==
    \/ InscribeStart
    \/ InscribeIterate

SpecInscribe == InitInscribe /\ [][NextInscribe]_vars

(***************************************************************************)
(* C22: whenever create_inscription_transactions returns Ok, the bytes of  *)
(* the reveal txid start with reveal_tx_prefix, and the returned id is the *)
(* txid of the returned (signed) reveal transaction.                       *)
(***************************************************************************)
C22_ReturnedRevealHasPrefix ==
    ci_pc = "returned" =>
        /\ Len(ci_args.reveal_tx_prefix) <= Len(ci_reveal_hash)
        /\ SubSeq(ci_reveal_hash, 1, Len(ci_args.reveal_tx_prefix))
               = ci_args.reveal_tx_prefix
        /\ ci_result.reveal.id = compute_txid(ci_result.reveal.tx)

\* a pair returned after at least one rejected nonce, under a prefix of one byte
C22_Witness ==
    /\ ci_pc = "returned"
    /\ ci_nonce > 0
    /\ ci_args.reveal_tx_prefix = <<0>>
    /\ ci_result.reveal.tx.input[1].witness # <<>>

(***************************************************************************)
(* C23: the returned pair comes from one nonce iteration: the reveal has   *)
(* exactly one input, which spends output 0 of the returned commit; the    *)
(* script in its witness carries the nonce of the last iteration; and the  *)
(* address of commit output 0 is the taproot address of the tree whose     *)
(* leaf is that script.                                                    *)
(***************************************************************************)
C23_PairFromOneIteration ==
    ci_pc = "returned" =>
        LET commit == ci_result.commit
            reveal == ci_result.reveal.tx
            script == reveal.input[1].witness[2]
        IN  /\ Len(reveal.input) = 1
            /\ Len(reveal.output) = 1
            /\ reveal.input[1].txid = compute_txid(commit)
            /\ reveal.input[1].vout = 0
            /\ script[12] = PushInt(ci_nonce)
            /\ commit.output[1].script_pubkey
                   = P2TR(ci_public_key, TapLeafHash(script))
            /\ reveal.input[1].witness[3] = ControlBlock(ci_public_key, script)

\* a pair returned at a nonce whose push is longer than that of nonce 0
C23_Witness ==
    /\ ci_pc = "returned"
    /\ ci_nonce >= 17
    /\ Len(ci_result.commit.output) = 2

RECURSIVE ConcatPushes(_, _, _)
\* the data of the pushes at positions from..to of a script, concatenated
ConcatPushes(script, from, to) ==
    IF from > to THEN <<>>
    ELSE script[from].data \o ConcatPushes(script, from + 1, to)

(***************************************************************************)
(* C24: round trip of the envelope.  In the reveal script of a returned    *)
(* pair the pushes after the signature tag and the public key tag are the  *)
(* signature and the sequencer public key; the pushes between the body tag *)
(* and OP_ENDIF hold at most 520 bytes each, all but the last exactly 520, *)
(* and their concatenation is the body.                                    *)
(***************************************************************************)
C24_EnvelopeRoundTrip ==
    ci_pc = "returned" =>
        LET script == ci_result.reveal.tx.input[1].witness[2]
            last == Len(script) - 1
        IN  /\ script[7] = PushSlice(SIGNATURE_TAG)
            /\ script[8].op = "PUSHBYTES" /\ script[8].data = ci_args.signature
            /\ script[9] = PushSlice(PUBLICKEY_TAG)
            /\ script[10].op = "PUSHBYTES"
            /\ script[10].data = ci_args.sequencer_public_key
            /\ script[13] = PushSlice(BODY_TAG)
            /\ script[Len(script)] = PushOpcode("OP_ENDIF")
            /\ \A i \in 14..last :
                 /\ script[i].op = "PUSHBYTES"
                 /\ Len(script[i].data) <= 520
                 /\ Len(script[i].data) > 0
                 /\ i < last => Len(script[i].data) = 520
            /\ ConcatPushes(script, 14, last) = ci_args.body

\* a returned pair whose body takes three pushes, the last of one byte
C24_Witness ==
    /\ ci_pc = "returned"
    /\ Len(ci_args.body) = 1041
    /\ Len(ci_result.reveal.tx.input[1].witness[2]) = 17

(***************************************************************************)
(* C25: the search has no terminal failure: once the iteration of nonce 0  *)
(* has built a commit and a reveal, no later iteration ends the call with  *)
(* an error (or a panic), and a call that has returned has a reveal txid   *)
(* with the prefix.                                                        *)
(***************************************************************************)
C25_NoFailureAfterNonceZero ==
    /\ ci_pc \in {"failed", "panicked"} => ci_nonce = 0
    /\ ci_pc = "returned" => StartsWith(ci_reveal_hash, ci_args.reveal_tx_prefix)

\* the pass of the nonce loop that is about to run
ThisIteration ==
    InscriptionIteration(ci_args, ci_overflow_checks, ci_public_key, ci_nonce)

\* reveal_value + ceil(reveal_vsize * reveal_fee_rate) for the script of the
\* pass that is about to run: what build_reveal_transaction asks of its input
ThisRevealNeed ==
    LET script == RevealScript(RevealScriptBuilder(ci_public_key, ci_args.rollup_name,
                                   ci_args.signature, ci_args.sequencer_public_key),
                               ci_nonce, ci_args.body)
        reveal_vsize == get_size(<<TxIn(0, 0)>>,
                                 <<TxOut(ci_args.reveal_value, ci_args.recipient)>>,
                                 Some(ScriptLen(script)), Some(ControlBlockLen))
    IN  ci_args.reveal_value + Fee(reveal_vsize, ci_args.reveal_fee_rate)

\* the reveal builder failed in the pass: its is the only error with this text
RevealFailed(it) == it.kind = "err" /\ it.msg = "input UTXO not big enough"

(***************************************************************************)
(* C40: in every nonce iteration that builds a commit, the value of commit *)
(* output 0 equals reveal_value + ceil(reveal_vsize * reveal_fee_rate),    *)
(* the amount build_reveal_transaction requires, so the reveal builder     *)
(* fails in the iteration only if that value is below REVEAL_OUTPUT_AMOUNT.*)
(***************************************************************************)
C40_CommitValueIsRevealNeed ==
    (ci_pc = "loop" /\ ci_nonce <= MaxNonce) =>
        /\ (ThisIteration.kind = "built" \/ RevealFailed(ThisIteration)) =>
               ThisIteration.commit.output[1].value = ThisRevealNeed
        /\ RevealFailed(ThisIteration) =>
               ThisIteration.commit.output[1].value < REVEAL_OUTPUT_AMOUNT

\* what the replay hands on as the pre-root of the next soft confirmation:
\* initial_state_root before any was applied, else the state_root of the
\* SlotResult of the last apply_soft_confirmation
LastReturnedRoot ==
    IF slot_result = None THEN args.initial_state_root
    ELSE slot_result.val.state_root

(***************************************************************************)
(* C33: state roots are threaded through the replay: the first soft        *)
(* confirmation is applied with pre-root initial_state_root, every later   *)
(* one, across commitment boundaries too, with the state_root returned for *)
(* the one before it, and the root returned is the state_root of the last  *)
(* soft confirmation applied.                                              *)
(***************************************************************************)
C33_RootsThreaded ==
    /\ [][(pc = "apply_loop" /\ pc' = "begin") =>
              apply_args'.pre_state_root = LastReturnedRoot]_vars
    /\ [][(pc = "applied" /\ pc' = "apply_loop") =>
              current_state_root' = slot_result.val.state_root]_vars
    /\ [](pc \in {"begin", "txs", "end", "finalize"} =>
              apply_args.pre_state_root = current_state_root)
    /\ [](pc = "returned" =>
              slot_result # None /\ current_state_root = LastReturnedRoot)

\* C33 witness: the first soft confirmation of a second commitment is about
\* to be applied on the root the first commitment ended with
C33_Witness ==
    /\ pc = "begin"
    /\ idx = 2 /\ conf_idx = 1
    /\ Len(apply_args.pre_state_root) = 2

(***************************************************************************)
(* C38: the replay processes exactly the commitments at indices range.0    *)
(* ..= range.1 of the sorted, filtered list, each with its own queue of    *)
(* soft confirmations, headers and witnesses, or it aborts: it never       *)
(* returns a root after fewer commitments than the range names.            *)
(***************************************************************************)
C38_WholeRangeOrAbort ==
    pc = "returned" =>
        LET range == args.sequencer_commitments_range
        IN  /\ idx - 1 = range[2] - range[1] + 1
            /\ \A j \in 1..(idx - 1) :
                   /\ range[1] + j <= Len(sequencer_commitments)
                   /\ Taken[j] = sequencer_commitments[range[1] + j]

\* the soft confirmation of the call was rejected: the pre-batch hook
\* returned an error and apply_soft_confirmation took its Err arm
Rejected == pc = "applied" /\ working_set = "reverted"

(***************************************************************************)
(* C39: a soft confirmation rejected by apply_soft_confirmation (pre-batch *)
(* hook error) does not stop the replay: current_state_root keeps its      *)
(* value, nothing is added to the cumulative diff, the L2 height advances  *)
(* by one, the fork manager registers that height, and the confirmation    *)
(* after it is applied on the unchanged root.                              *)
(***************************************************************************)
C39_RejectedDoesNotStopReplay ==
    /\ [][Rejected =>
              /\ pc' = "apply_loop"
              /\ current_state_root' = current_state_root
              /\ current_state_root' = apply_args.pre_state_root
              /\ state_diff' = state_diff
              /\ l2_height' = l2_height + 1
              /\ conf_idx' = conf_idx + 1
              /\ fork_manager' = register_block(fork_manager, l2_height, <<>>).fm
              /\ current_spec' = active_fork(fork_manager')
              /\ storage' = storage]_vars
    /\ [][(pc = "apply_loop" /\ pc' = "begin" /\ working_set = "reverted") =>
              apply_args'.pre_state_root = apply_args.pre_state_root]_vars
    /\ [](panic = "" \/ working_set # "reverted")

\* C39 witness: the block at the height of a fork activation was rejected
\* after a block had been committed, and the one after it is being applied
C39_Witness ==
    /\ pc = "begin"
    /\ runtime.begin_err = {2}
    /\ apply_args.soft_confirmation.hash = 3
    /\ Len(apply_args.pre_state_root) = 1
    /\ apply_args.current_spec = "Fork1"
    /\ state_diff = <<1>>

=============================================================================
